---- MODULE Spec2Model ----
(***************************************************************************)
(* A state machine of slm::Optional<T> and slm::Optional<T&>               *)
(* (src/slm_assert.hpp, lines 155-886) together with the assertion macros  *)
(* it uses (src/slm_assert.hpp, lines 1-75) and the instrumented payload   *)
(* type Int of src/test.cpp (lines 153-221).                               *)
(*                                                                         *)
(* One block of a program is modelled: the Int objects of Exts are         *)
(* declared first (test.cpp:430), then the block constructs, uses and      *)
(* destroys the Optional<Int> objects of Opts, and at the end of the block *)
(* (BlockExit) the Ints of Exts are destroyed, which is where test.cpp:500 *)
(* compares the counters.  The Optional<Int&> objects of Refs are used     *)
(* while no Optional<Int> is in scope, as in test.cpp, where each group of *)
(* operations has a block of its own.                                      *)
(*                                                                         *)
(* T is a payload type none of whose special members is trivial, so every  *)
(* hand-written member of Optional<T> is the one that runs.  Each call of  *)
(* a special member of T made by the last operation is recorded in         *)
(* `calls`, the way Int records it in its `flags`.                         *)
(***************************************************************************)
EXTENDS Integers, Sequences, FiniteSets, TLC

\* Bounds of the model.
MaxVal == 2
MaxConstructed == 4

Values == 1..MaxVal

\* The Optional<Int> variables of the block.
Opts == {"a", "b"}
\* The Optional<Int&> variables of the block.
Refs == {"r"}
\* The Int variables of the block (test.cpp:430, `Int y = 77;`).
Exts == {"y"}

VARIABLES
  pc,          \* "running", "aborted" (std::abort), "crashed" (a fault), "done",
               \* "ill-formed" (the statement just written does not compile:
               \* the program that contains it is not built)
  ndebug,      \* whether the build defines NDEBUG
  alive,       \* alive[o]: the Optional<Int> o is within its lifetime
  m_engaged,   \* Optional<T>::m_engaged
  m_payload,   \* Optional<T>::m_payload: the storage slot and the T in it
  ext,         \* the Int objects of Exts
  m_ptr,       \* Optional<T&>::m_ptr
  constructed, \* Int::constructed
  destroyed,   \* Int::destroyed
  calls,       \* the special members of Int the last operation called
  last,        \* the last operation: its name, operands, pre-state, result
  hist         \* hist[o]: whether the operation that last set o was of an
               \* engaging kind, and whether o has been moved from since

vars == <<pc, ndebug, alive, m_engaged, m_payload, ext, m_ptr,
          constructed, destroyed, calls, last, hist>>

-----------------------------------------------------------------------------
(* Int, the payload type (src/test.cpp:153-221).                           *)

\* Storage that holds no live Int.
Raw == [live |-> FALSE, value |-> 0, copied_from |-> FALSE, moved_from |-> FALSE]

\* Int(int x): value{x}, flags{VALUE_CONSTRUCTED}.
IntFromValue(x) ==
  [live |-> TRUE, value |-> x, copied_from |-> FALSE, moved_from |-> FALSE]

\* Int(const Int& other) and Int(Int&& other): value{other.value}; the new
\* object's flags hold only the kind of construction.
IntFromInt(other) ==
  [live |-> TRUE, value |-> other.value, copied_from |-> FALSE,
   moved_from |-> FALSE]

\* other.flags |= COPIED_FROM, the effect of Int(const Int&) and
\* operator=(const Int&) on their argument (flags is mutable).
CopiedFrom(other) == [other EXCEPT !.copied_from = TRUE]

\* other.flags |= MOVED_FROM, the effect of Int(Int&&) and operator=(Int&&)
\* on their argument.
MovedFrom(other) == [other EXCEPT !.moved_from = TRUE]

\* operator=(const Int&), operator=(Int&&), operator=(int): value = other.value;
\* flags are or-ed, so COPIED_FROM and MOVED_FROM stay.
IntAssigned(self, v) == [self EXCEPT !.value = v]

\* One call of a special member of Int: which member, on which object, with
\* which argument.
Call(fn, obj, arg) == [fn |-> fn, obj |-> obj, arg |-> arg]

NoArg == <<"none">>

-----------------------------------------------------------------------------
(* The memory the operations act on, threaded through the steps of one     *)
(* operation: the payload slots and engaged flags, the Ints of Exts, a     *)
(* temporary (std::swap), the two counters and the calls made so far.      *)
(* throws says whether the constructors of T throw during this operation   *)
(* (Int's never do), thrown whether an exception is propagating: no member *)
(* of Optional has a handler, so every later step of the operation is      *)
(* skipped.                                                                *)

Mem == [pay |-> m_payload, eng |-> m_engaged, ext |-> ext, tmp |-> Raw,
        ctor |-> constructed, dtor |-> destroyed, calls |-> <<>>,
        throws |-> FALSE, thrown |-> FALSE]

\* The memory at the start of an operation during which T's constructors
\* throw.
Throwing == [Mem EXCEPT !.throws = TRUE]

\* A constructor of T exits by an exception: no object is made.
Throw(m, fn, p, arg) ==
  [m EXCEPT !.thrown = TRUE,
            !.calls = Append(@, Call(fn, p, arg))]

\* m_engaged = b.
SetEngaged(m, o, b) == IF m.thrown THEN m ELSE [m EXCEPT !.eng[o] = b]

Payload(o) == <<"opt", o>>

\* The object at a place: <<"opt", o>> is o.m_payload, <<"ext", e>> the Int e,
\* <<"tmp">> the temporary, <<"lit", v>> the int literal v.
At(m, p) ==
  CASE p[1] = "opt" -> m.pay[p[2]]
    [] p[1] = "ext" -> m.ext[p[2]]
    [] p[1] = "tmp" -> m.tmp
    [] OTHER -> IntFromValue(p[2])

Put(m, p, obj) ==
  CASE p[1] = "opt" -> [m EXCEPT !.pay[p[2]] = obj]
    [] p[1] = "ext" -> [m EXCEPT !.ext[p[2]] = obj]
    [] p[1] = "tmp" -> [m EXCEPT !.tmp = obj]
    [] OTHER -> m

\* Int(int): constructed++.
ConstructFromValue(m, p, x) ==
  IF m.thrown THEN m
  ELSE IF m.throws THEN Throw(m, "Int(int) throws", p, <<"lit", x>>)
  ELSE [Put(m, p, IntFromValue(x)) EXCEPT
          !.ctor = @ + 1, !.calls = Append(@, Call("Int(int)", p, <<"lit", x>>))]

\* Int(const Int&): constructed++; other.flags |= COPIED_FROM.
CopyConstruct(m, p, src) ==
  IF m.thrown THEN m
  ELSE IF m.throws THEN Throw(m, "Int(const Int&) throws", p, src)
  ELSE [Put(Put(m, p, IntFromInt(At(m, src))), src, CopiedFrom(At(m, src)))
          EXCEPT
          !.ctor = @ + 1, !.calls = Append(@, Call("Int(const Int&)", p, src))]

\* Int(Int&&): constructed++; other.flags |= MOVED_FROM.
MoveConstruct(m, p, src) ==
  IF m.thrown THEN m
  ELSE IF m.throws THEN Throw(m, "Int(Int&&) throws", p, src)
  ELSE [Put(Put(m, p, IntFromInt(At(m, src))), src, MovedFrom(At(m, src)))
          EXCEPT
          !.ctor = @ + 1, !.calls = Append(@, Call("Int(Int&&)", p, src))]

\* ~Int(): destroyed++.
Destruct(m, p) ==
  IF m.thrown THEN m
  ELSE [Put(m, p, Raw) EXCEPT
          !.dtor = @ + 1, !.calls = Append(@, Call("~Int()", p, NoArg))]

\* operator=(const Int&): other.flags |= COPIED_FROM.
CopyAssign(m, p, src) ==
  LET v == At(m, src).value
      m1 == Put(m, src, CopiedFrom(At(m, src)))
  IN IF m.thrown THEN m
     ELSE [Put(m1, p, IntAssigned(At(m1, p), v)) EXCEPT
             !.calls = Append(@, Call("operator=(const Int&)", p, src))]

\* operator=(Int&&): other.flags |= MOVED_FROM.
MoveAssign(m, p, src) ==
  LET v == At(m, src).value
      m1 == Put(m, src, MovedFrom(At(m, src)))
  IN IF m.thrown THEN m
     ELSE [Put(m1, p, IntAssigned(At(m1, p), v)) EXCEPT
             !.calls = Append(@, Call("operator=(Int&&)", p, src))]

\* operator=(int).
ValueAssign(m, p, x) ==
  IF m.thrown THEN m
  ELSE [Put(m, p, IntAssigned(At(m, p), x)) EXCEPT
          !.calls = Append(@, Call("operator=(int)", p, <<"lit", x>>))]

-----------------------------------------------------------------------------
(* What a Some(...) proxy wraps (lines 174-237).  Some(1) is Some<int&&>,  *)
(* Some(y) for an Int lvalue y is Some<const Int&> (the deduction guide of *)
(* line 233-234), Some(std::move(y)) is Some<Int&&>.                       *)

Somes == {<<"lit", v>> : v \in Values}
           \cup {<<"lvalue", e>> : e \in Exts}
           \cup {<<"rvalue", e>> : e \in Exts}

\* Where the wrapped object is.
SomePlace(x) == IF x[1] = "lit" THEN x ELSE <<"ext", x[2]>>

\* m_payload(x.unwrap()) and std::construct_at(&m_payload, x.unwrap()): the
\* constructor of T that the wrapped reference selects.
ConstructFromSome(m, o, x) ==
  CASE x[1] = "lit" -> ConstructFromValue(m, Payload(o), x[2])
    [] x[1] = "lvalue" -> CopyConstruct(m, Payload(o), SomePlace(x))
    [] OTHER -> MoveConstruct(m, Payload(o), SomePlace(x))

\* m_payload = x.unwrap(): the assignment operator of T that it selects.
AssignFromSome(m, o, x) ==
  CASE x[1] = "lit" -> ValueAssign(m, Payload(o), x[2])
    [] x[1] = "lvalue" -> CopyAssign(m, Payload(o), SomePlace(x))
    [] OTHER -> MoveAssign(m, Payload(o), SomePlace(x))

-----------------------------------------------------------------------------
(* The record of the last operation.                                       *)

NoRet == <<"none">>

\* op: the operation; self, other: its operands; selfWas, otherWas: whether
\* they were engaged before it; argWas: the object a Some(...) argument wrapped,
\* as it was before it (for swap, the two payloads as they were before it);
\* ret: what the operation returned.
Last(op, self, other, selfWas, otherWas, argWas, ret) ==
  [op |-> op, self |-> self, other |-> other, selfWas |-> selfWas,
   otherWas |-> otherWas, argWas |-> argWas, ret |-> ret]

\* Writes the memory back and records the operation.  The operation is taken
\* only while Int::constructed stays within the model's bound.
Commit(m, l) ==
  /\ m.ctor <= MaxConstructed
  /\ m_payload' = m.pay
  /\ m_engaged' = m.eng
  /\ ext' = m.ext
  /\ constructed' = m.ctor
  /\ destroyed' = m.dtor
  /\ calls' = m.calls
  /\ last' = l


Running == pc = "running"

\* No Optional<Int> of the block is within its lifetime.
NoOptionalInScope == \A o \in Opts : ~alive[o]

\* The kinds of operation that set an optional, and those among them after
\* which it holds a value.
Kinds == {"construct", "construct_empty", "copy_from_engaged",
          "copy_from_disengaged", "move_from_engaged", "move_from_disengaged",
          "emplace", "reset", "empty_assign", "assign_value",
          "swap_with_engaged", "swap_with_disengaged"}
EngagingKinds == {"construct", "copy_from_engaged", "move_from_engaged",
                  "emplace", "assign_value", "swap_with_engaged"}

\* The history of an optional: whether the operation that last set it was of
\* an engaging kind, and whether it has been the source of a move since.
NoHist == [engaging |-> FALSE, moved_away |-> FALSE]
SetBy(h, o, k) ==
  [h EXCEPT ![o] = [engaging |-> k \in EngagingKinds, moved_away |-> FALSE]]
\* o has been the source of a move.
MovedAway(h, o) == [h EXCEPT ![o].moved_away = TRUE]

\* The value the Ints of Exts are declared with (`Int y = 77;`).
ExtValue(e) == MaxVal

-----------------------------------------------------------------------------
Init ==
  /\ pc = "running"
  /\ ndebug \in BOOLEAN
  /\ alive = [o \in Opts |-> FALSE]
  /\ m_engaged = [o \in Opts |-> FALSE]
  /\ m_payload = [o \in Opts |-> Raw]
  /\ ext = [e \in Exts |-> IntFromValue(ExtValue(e))]
  /\ m_ptr = [r \in Refs |-> "null"]
  /\ constructed = Cardinality(Exts)
  /\ destroyed = 0
  /\ calls = <<>>
  /\ last = Last("init", "-", "-", FALSE, FALSE, Raw, NoRet)
  /\ hist = [o \in Opts |-> NoHist]

-----------------------------------------------------------------------------
(* The assertion macros (src/slm_assert.hpp:1-75, the definitions in       *)
(* force: the second set, lines 77-153, sits behind the same include guard *)
(* SLM_CHECK_REQUIRE_HPP and is skipped by the preprocessor).              *)

\* std::is_constant_evaluated() as the condition of `if constexpr` (line 62):
\* the condition is itself constant-evaluated, so the call yields true.
is_constant_evaluated == TRUE

\* REQUIRE(condition, ...) (lines 60-65): whether it ends the process.
\*   if constexpr (!std::is_constant_evaluated()) assertions::check(condition, ...)
\* and check (lines 40-56) calls fail_with_message, which prints and calls
\* std::abort(), if the condition is false.
REQUIRE(condition) == (~is_constant_evaluated) /\ ~condition

\* CHECK(condition, ...) (lines 67-71): REQUIRE unless NDEBUG is defined.
CHECK(condition) == (~ndebug) /\ REQUIRE(condition)

-----------------------------------------------------------------------------
(* The members of Optional<T> (src/slm_assert.hpp:316-706), each a         *)
(* function from the memory before the call to the memory after it.        *)

\* A copy constructor that copies the flag and the payload without looking
\* at the flag.
Optional_copy_unguarded(m, o, other) ==
  SetEngaged(CopyConstruct(m, Payload(o), Payload(other)), o, m.eng[other])

\* Optional(const Optional& other) (lines 331-337).
Optional_copy(m, o, other) ==
  IF m.eng[other]
  THEN SetEngaged(CopyConstruct(m, Payload(o), Payload(other)), o, TRUE)
  ELSE m

\* A move constructor that leaves its source empty.
Optional_move_empties(m, o, other) ==
  IF m.eng[other]
  THEN SetEngaged(
         Destruct(SetEngaged(MoveConstruct(m, Payload(o), Payload(other)),
                             o, TRUE),
                  Payload(other)),
         other, FALSE)
  ELSE m

\* Optional(Optional&& other) (lines 343-349).
Optional_move(m, o, other) ==
  IF m.eng[other]
  THEN SetEngaged(MoveConstruct(m, Payload(o), Payload(other)), o, TRUE)
  ELSE m

\* Optional(std::in_place_t, Args&&... args) (lines 351-356), with one int.
Optional_in_place(m, o, x) ==
  SetEngaged(ConstructFromValue(m, Payload(o), x), o, TRUE)

\* Optional(Some<const U&> x) and Optional(Some<U&&> x) (lines 358-370).
Optional_Some(m, o, x) ==
  SetEngaged(ConstructFromSome(m, o, x), o, TRUE)

\* A destructor that never destroys the payload.
Optional_dtor_leaks(m, o) == m

\* ~Optional() (lines 376-381).
Optional_dtor(m, o) ==
  IF m.eng[o] THEN Destruct(m, Payload(o)) ELSE m

\* An assignment from None that destroys the payload whatever the flag says.
assign_None_unguarded(m, o) ==
  SetEngaged(Destruct(m, Payload(o)), o, FALSE)

\* operator=(NoneType) (lines 383-391), up to the end of its body.
assign_None(m, o) ==
  SetEngaged(IF m.eng[o] THEN Destruct(m, Payload(o)) ELSE m, o, FALSE)

\* A copy assignment without the branch for an engaged target and a
\* disengaged source.
assign_copy_stays(m, o, other) ==
  IF m.eng[o] /\ m.eng[other]
  THEN CopyAssign(m, Payload(o), Payload(other))
  ELSE IF (~m.eng[o]) /\ m.eng[other]
  THEN SetEngaged(CopyConstruct(m, Payload(o), Payload(other)), o, TRUE)
  ELSE m

\* A copy assignment that empties the target first and then copies the
\* source's payload into it.
assign_copy_resets_first(m, o, other) ==
  LET m1 == IF m.eng[o] THEN SetEngaged(Destruct(m, Payload(o)), o, FALSE)
            ELSE m
  IN IF m1.eng[other]
     THEN SetEngaged(CopyConstruct(m1, Payload(o), Payload(other)), o, TRUE)
     ELSE m1

\* operator=(const Optional& other) (lines 397-412).
assign_copy(m, o, other) ==
  IF m.eng[o] /\ m.eng[other]
  THEN CopyAssign(m, Payload(o), Payload(other))
  ELSE IF m.eng[o]
  THEN SetEngaged(Destruct(m, Payload(o)), o, FALSE)
  ELSE IF m.eng[other]
  THEN SetEngaged(CopyConstruct(m, Payload(o), Payload(other)), o, TRUE)
  ELSE m

\* A move assignment that destroys and rebuilds the payload of an engaged
\* target instead of assigning to it.
assign_move_rebuilds(m, o, other) ==
  IF m.eng[o] /\ m.eng[other]
  THEN MoveConstruct(Destruct(m, Payload(o)), Payload(o), Payload(other))
  ELSE IF m.eng[o]
  THEN SetEngaged(Destruct(m, Payload(o)), o, FALSE)
  ELSE IF m.eng[other]
  THEN SetEngaged(MoveConstruct(m, Payload(o), Payload(other)), o, TRUE)
  ELSE m

\* operator=(Optional&& other) (lines 418-433).
assign_move(m, o, other) ==
  IF m.eng[o] /\ m.eng[other]
  THEN MoveAssign(m, Payload(o), Payload(other))
  ELSE IF m.eng[o]
  THEN SetEngaged(Destruct(m, Payload(o)), o, FALSE)
  ELSE IF m.eng[other]
  THEN SetEngaged(MoveConstruct(m, Payload(o), Payload(other)), o, TRUE)
  ELSE m

\* An assignment from Some that destroys and rebuilds the payload of an
\* engaged target.
assign_Some_rebuilds(m, o, x) ==
  SetEngaged(ConstructFromSome(IF m.eng[o] THEN Destruct(m, Payload(o)) ELSE m,
                               o, x),
             o, TRUE)

\* operator=(Some<const U&> x) and operator=(Some<U&&> x) (lines 435-457).
assign_Some(m, o, x) ==
  IF m.eng[o]
  THEN AssignFromSome(m, o, x)
  ELSE SetEngaged(ConstructFromSome(m, o, x), o, TRUE)

\* std::swap(a, b) of two Ints: T tmp(std::move(a)); a = std::move(b);
\* b = std::move(tmp); and tmp is destroyed.
std_swap(m, p, q) ==
  Destruct(MoveAssign(MoveAssign(MoveConstruct(m, <<"tmp">>, p), p, q),
                      q, <<"tmp">>),
           <<"tmp">>)

\* A swap that, with one side engaged, moves the payload across and leaves
\* the source as it was.
swap_keeps_source(m, o, other) ==
  IF m.eng[o]
  THEN IF m.eng[other]
       THEN std_swap(m, Payload(o), Payload(other))
       ELSE SetEngaged(MoveConstruct(m, Payload(other), Payload(o)), other, TRUE)
  ELSE IF m.eng[other]
  THEN SetEngaged(MoveConstruct(m, Payload(o), Payload(other)), o, TRUE)
  ELSE m

\* swap(Optional& other) (lines 648-669).
swap(m, o, other) ==
  IF m.eng[o]
  THEN IF m.eng[other]
       THEN std_swap(m, Payload(o), Payload(other))
       ELSE SetEngaged(
              Destruct(
                SetEngaged(MoveConstruct(m, Payload(other), Payload(o)),
                           other, TRUE),
                Payload(o)),
              o, FALSE)
  ELSE IF m.eng[other]
  THEN SetEngaged(
         Destruct(
           SetEngaged(MoveConstruct(m, Payload(o), Payload(other)), o, TRUE),
           Payload(other)),
         other, FALSE)
  ELSE m

\* A reset() that destroys the payload and forgets to clear the flag.
reset_keeps_flag(m, o) ==
  IF m.eng[o] THEN Destruct(m, Payload(o)) ELSE m

\* reset() (lines 673-679).
reset(m, o) ==
  IF m.eng[o] THEN SetEngaged(Destruct(m, Payload(o)), o, FALSE) ELSE m

\* An emplace that assigns to the payload of an engaged optional.
emplace_assigns(m, o, x) ==
  IF m.eng[o]
  THEN ValueAssign(m, Payload(o), x)
  ELSE SetEngaged(ConstructFromValue(m, Payload(o), x), o, TRUE)

\* An emplace that sets the flag before it constructs the payload.
emplace_flag_first(m, o, x) ==
  ConstructFromValue(SetEngaged(reset(m, o), o, TRUE), Payload(o), x)

\* emplace(Args&&... args) (lines 681-688), with one int.
emplace(m, o, x) ==
  SetEngaged(ConstructFromValue(reset(m, o), Payload(o), x), o, TRUE)

\* has_value() (line 497).
has_value(o) == m_engaged[o]

\* value() (lines 499-521): ends the process if REQUIRE does, and otherwise
\* returns a reference to m_payload.
value(o) ==
  IF REQUIRE(m_engaged[o])
  THEN [abort |-> TRUE, ret |-> NoRet]
  ELSE [abort |-> FALSE, ret |-> <<"ref", Payload(o)>>]

\* operator*() (lines 471-493) and operator->() (lines 459-469): the same
\* with CHECK.
deref(o) ==
  IF CHECK(m_engaged[o])
  THEN [abort |-> TRUE, ret |-> NoRet]
  ELSE [abort |-> FALSE, ret |-> <<"ref", Payload(o)>>]

-----------------------------------------------------------------------------
(* The members of Optional<T&> (src/slm_assert.hpp:708-796).               *)

\* A binding that stores no address.
ref_bind_nothing(e) == "null"

\* Optional(SomeRef<T> ref) (lines 717-720) and operator=(SomeRef<T> ref)
\* (lines 725-729): m_ptr = &ref.unwrap().
ref_bind(e) == e

\* The members of Optional<T&> that set m_ptr, as functions of the memory m
\* and the pointers p (p[r] is r.m_ptr) before the call, giving both after it.

\* An assignment from SomeRef that assigns to the referent when there is one.
ref_assign_through(m, p, r, e) ==
  IF p[r] # "null"
  THEN [mem |-> CopyAssign(m, <<"ext", p[r]>>, <<"ext", e>>), ptr |-> p]
  ELSE [mem |-> m, ptr |-> [p EXCEPT ![r] = ref_bind(e)]]

\* operator=(SomeRef<T> ref) (lines 725-729).
ref_assign_SomeRef(m, p, r, e) ==
  [mem |-> m, ptr |-> [p EXCEPT ![r] = ref_bind(e)]]

\* operator=(NoneType) (line 722): m_ptr = nullptr.
ref_assign_None(m, p, r) == [mem |-> m, ptr |-> [p EXCEPT ![r] = "null"]]

\* operator=(const Optional& other) = default (line 723): the pointer is
\* copied.
ref_assign_copy(m, p, r, other) ==
  [mem |-> m, ptr |-> [p EXCEPT ![r] = p[other]]]

\* operator=(Optional&& other) = default (line 724): moving a pointer copies
\* it.
ref_assign_move(m, p, r, other) ==
  [mem |-> m, ptr |-> [p EXCEPT ![r] = p[other]]]

\* A swap that exchanges the referents, as Optional<T>::swap exchanges the
\* payloads of two engaged optionals.
ref_swap_referents(m, p, r, other) ==
  IF p[r] # "null" /\ p[other] # "null" /\ p[r] # p[other]
  THEN [mem |-> std_swap(m, <<"ext", p[r]>>, <<"ext", p[other]>>), ptr |-> p]
  ELSE [mem |-> m, ptr |-> [p EXCEPT ![r] = p[other], ![other] = p[r]]]

\* swap(Optional& other) (line 789): std::swap(m_ptr, other.m_ptr).
ref_swap(m, p, r, other) ==
  [mem |-> m, ptr |-> [p EXCEPT ![r] = p[other], ![other] = p[r]]]

\* reset() (line 792): m_ptr = nullptr.
ref_reset(m, p, r) == [mem |-> m, ptr |-> [p EXCEPT ![r] = "null"]]

\* value() (lines 747-751): REQUIRE(m_ptr), then `return *m_ptr`.
ref_value(r) ==
  IF REQUIRE(m_ptr[r] # "null")
  THEN [abort |-> TRUE, ret |-> NoRet]
  ELSE [abort |-> FALSE, ret |-> <<"ref", <<"ext", m_ptr[r]>>>>]

\* operator*() (lines 731-735): CHECK(m_ptr), then `return *m_ptr`.
ref_deref(r) ==
  IF CHECK(m_ptr[r] # "null")
  THEN [abort |-> TRUE, ret |-> NoRet]
  ELSE [abort |-> FALSE, ret |-> <<"ref", <<"ext", m_ptr[r]>>>>]

-----------------------------------------------------------------------------
(* Undefined behaviour.                                                    *)

\* A function returning Optional& whose body ends without a return statement
\* (operator=(NoneType), lines 383-391 and 722): the caller gets the object
\* itself, something else, or the process faults.
FlowsOffTheEnd(self) ==
  {[pc |-> "running", ret |-> <<"ref", self>>],
   [pc |-> "running", ret |-> <<"garbage">>],
   [pc |-> "crashed", ret |-> NoRet]}

\* `return *m_ptr` with m_ptr null: a reference to no object comes back, or
\* the process faults.
NullDereference ==
  {[pc |-> "running", ret |-> <<"ref", <<"ext", "null">>>>],
   [pc |-> "crashed", ret |-> NoRet]}

-----------------------------------------------------------------------------
(* The operations of the block on its Optional<Int> variables.             *)

\* A statement that does not compile: nothing is executed.
Rejected(op, self, other) ==
  /\ pc' = "ill-formed"
  /\ Commit(Mem, Last(op, self, other, FALSE, FALSE, Raw, NoRet))
  /\ UNCHANGED <<ndebug, alive, m_ptr, hist>>

\* Whether the defaulted default constructor of Optional<T> (line 320) is
\* deleted: the anonymous union (lines 691-694) has the member m_payload and no
\* default member initializer, so it is deleted exactly when T's default
\* constructor is not trivial.  Int() is user-provided (test.cpp:174).
default_constructor_deleted == TRUE

\* Optional<Int> o;  (line 320, with m_engaged{false} of line 695)
ConstructDefault(o) ==
  /\ Running /\ ~alive[o]
  /\ IF default_constructor_deleted
     THEN Rejected("Optional()", o, "-")
     ELSE /\ alive' = [alive EXCEPT ![o] = TRUE]
          /\ Commit(Mem, Last("Optional()", o, "-", FALSE, FALSE, Raw, NoRet))
          /\ hist' = SetBy(hist, o, "construct_empty")
          /\ UNCHANGED <<pc, ndebug, m_ptr>>

\* Optional<Int> o = None;  (line 321)
ConstructNone(o) ==
  /\ Running /\ ~alive[o]
  /\ alive' = [alive EXCEPT ![o] = TRUE]
  /\ Commit(Mem, Last("Optional(None)", o, "-", FALSE, FALSE, Raw, NoRet))
  /\ hist' = SetBy(hist, o, "construct_empty")
  /\ UNCHANGED <<pc, ndebug, m_ptr>>

\* Optional<Int> o(other);
ConstructCopy(o, other) ==
  /\ Running /\ ~alive[o] /\ alive[other]
  /\ alive' = [alive EXCEPT ![o] = TRUE]
  /\ Commit(Optional_copy(Mem, o, other),
            Last("Optional(const Optional&)", o, other,
                 FALSE, m_engaged[other], Raw, NoRet))
  /\ hist' = SetBy(hist, o, IF m_engaged[other] THEN "copy_from_engaged"
                                ELSE "copy_from_disengaged")
  /\ UNCHANGED <<pc, ndebug, m_ptr>>

\* Optional<Int> o(std::move(other));
ConstructMove(o, other) ==
  /\ Running /\ ~alive[o] /\ alive[other]
  /\ alive' = [alive EXCEPT ![o] = TRUE]
  /\ Commit(Optional_move(Mem, o, other),
            Last("Optional(Optional&&)", o, other,
                 FALSE, m_engaged[other], Raw, NoRet))
  /\ hist' = MovedAway(SetBy(hist, o, IF m_engaged[other] THEN "move_from_engaged"
                                          ELSE "move_from_disengaged"),
                     other)
  /\ UNCHANGED <<pc, ndebug, m_ptr>>

\* The constructor that Optional<T>(std::in_place, a1, ..., an) selects.  Both
\* Optional(std::in_place_t, Args&&...) (lines 351-356) and the private
\* Optional(F&&, U&&) (lines 700-705) are templates; with n = 1 both match
\* exactly, and the one without a parameter pack is the more specialized.
in_place_selects(n) ==
  IF n = 1 THEN "Optional(F&&, U&&)" ELSE "Optional(std::in_place_t, Args&&...)"

\* Optional<Int> o(std::in_place, x);  With the private constructor selected
\* the statement does not compile (it is private, and its initializer
\* std::invoke(std::in_place, x) is not a call).
ConstructInPlace(o, x) ==
  /\ Running /\ ~alive[o]
  /\ IF in_place_selects(1) = "Optional(F&&, U&&)"
     THEN Rejected("Optional(in_place)", o, <<"lit", x>>)
     ELSE /\ alive' = [alive EXCEPT ![o] = TRUE]
          /\ Commit(Optional_in_place(Mem, o, x),
                    Last("Optional(in_place)", o, <<"lit", x>>, FALSE, FALSE, Raw,
                         NoRet))
          /\ hist' = SetBy(hist, o, "construct")
          /\ UNCHANGED <<pc, ndebug, m_ptr>>

\* Optional<Int> o = Some(...);
ConstructSome(o, x) ==
  /\ Running /\ ~alive[o]
  /\ alive' = [alive EXCEPT ![o] = TRUE]
  /\ Commit(Optional_Some(Mem, o, x),
            Last("Optional(Some)", o, x, FALSE, FALSE, At(Mem, SomePlace(x)), NoRet))
  /\ hist' = SetBy(hist, o, "construct")
  /\ UNCHANGED <<pc, ndebug, m_ptr>>

\* o goes out of scope: ~Optional() runs and the storage is released.
Destroy(o) ==
  /\ Running /\ alive[o]
  /\ alive' = [alive EXCEPT ![o] = FALSE]
  /\ LET m == Optional_dtor(Mem, o)
     IN Commit([m EXCEPT !.pay[o] = Raw, !.eng[o] = FALSE],
               Last("~Optional()", o, "-", m_engaged[o], FALSE, Raw, NoRet))
  /\ hist' = [hist EXCEPT ![o] = NoHist]
  /\ UNCHANGED <<pc, ndebug, m_ptr>>

\* o = None;
AssignNone(o) ==
  /\ Running /\ alive[o]
  /\ \E out \in FlowsOffTheEnd(<<"optional", o>>) :
       /\ pc' = out.pc
       /\ Commit(assign_None(Mem, o),
                 Last("operator=(None)", o, "-", m_engaged[o], FALSE, Raw, out.ret))
  /\ hist' = SetBy(hist, o, "empty_assign")
  /\ UNCHANGED <<ndebug, alive, m_ptr>>

\* o = other;
AssignCopy(o, other) ==
  /\ Running /\ alive[o] /\ alive[other]
  /\ Commit(assign_copy(Mem, o, other),
            Last("operator=(const Optional&)", o, other,
                 m_engaged[o], m_engaged[other], Raw, <<"ref", <<"optional", o>>>>))
  /\ hist' = SetBy(hist, o, IF m_engaged[other] THEN "copy_from_engaged"
                                ELSE "copy_from_disengaged")
  /\ UNCHANGED <<pc, ndebug, alive, m_ptr>>

\* o = std::move(other);
AssignMove(o, other) ==
  /\ Running /\ alive[o] /\ alive[other]
  /\ Commit(assign_move(Mem, o, other),
            Last("operator=(Optional&&)", o, other,
                 m_engaged[o], m_engaged[other], Raw, <<"ref", <<"optional", o>>>>))
  /\ hist' = MovedAway(SetBy(hist, o, IF m_engaged[other] THEN "move_from_engaged"
                                          ELSE "move_from_disengaged"),
                     other)
  /\ UNCHANGED <<pc, ndebug, alive, m_ptr>>

\* o = Some(...);
AssignSome(o, x) ==
  /\ Running /\ alive[o]
  /\ Commit(assign_Some(Mem, o, x),
            Last("operator=(Some)", o, x, m_engaged[o], FALSE, At(Mem, SomePlace(x)),
                 <<"ref", <<"optional", o>>>>))
  /\ hist' = SetBy(hist, o, "assign_value")
  /\ UNCHANGED <<pc, ndebug, alive, m_ptr>>

\* o.swap(other);
Swap(o, other) ==
  /\ Running /\ alive[o] /\ alive[other]
  /\ Commit(swap(Mem, o, other),
            Last("swap", o, other, m_engaged[o], m_engaged[other],
                 <<m_payload[o], m_payload[other]>>, NoRet))
  /\ hist' = SetBy(SetBy(hist, o, IF m_engaged[other] THEN "swap_with_engaged"
                                      ELSE "swap_with_disengaged"),
                    other, IF m_engaged[o] THEN "swap_with_engaged"
                           ELSE "swap_with_disengaged")
  /\ UNCHANGED <<pc, ndebug, alive, m_ptr>>

\* o.reset();
Reset(o) ==
  /\ Running /\ alive[o]
  /\ Commit(reset(Mem, o), Last("reset", o, "-", m_engaged[o], FALSE, Raw, NoRet))
  /\ hist' = SetBy(hist, o, "reset")
  /\ UNCHANGED <<pc, ndebug, alive, m_ptr>>

\* o.emplace(x);
Emplace(o, x) ==
  /\ Running /\ alive[o]
  /\ Commit(emplace(Mem, o, x),
            Last("emplace", o, <<"lit", x>>, m_engaged[o], FALSE, Raw,
                 <<"ref", Payload(o)>>))
  /\ hist' = SetBy(hist, o, "emplace")
  /\ UNCHANGED <<pc, ndebug, alive, m_ptr>>

\* o.has_value();
HasValue(o) ==
  /\ Running /\ alive[o]
  /\ Commit(Mem, Last("has_value", o, "-", m_engaged[o], FALSE, Raw,
                      <<"bool", has_value(o)>>))
  /\ UNCHANGED <<pc, ndebug, alive, m_ptr, hist>>

\* o.value();
Value(o) ==
  /\ Running /\ alive[o]
  /\ pc' = IF value(o).abort THEN "aborted" ELSE pc
  /\ Commit(Mem, Last("value", o, "-", m_engaged[o], FALSE, Raw, value(o).ret))
  /\ UNCHANGED <<ndebug, alive, m_ptr, hist>>

\* *o;
Deref(o) ==
  /\ Running /\ alive[o]
  /\ pc' = IF deref(o).abort THEN "aborted" ELSE pc
  /\ Commit(Mem, Last("operator*", o, "-", m_engaged[o], FALSE, Raw, deref(o).ret))
  /\ UNCHANGED <<ndebug, alive, m_ptr, hist>>

\* o.operator->();
Arrow(o) ==
  /\ Running /\ alive[o]
  /\ pc' = IF deref(o).abort THEN "aborted" ELSE pc
  /\ Commit(Mem, Last("operator->", o, "-", m_engaged[o], FALSE, Raw, deref(o).ret))
  /\ UNCHANGED <<ndebug, alive, m_ptr, hist>>

-----------------------------------------------------------------------------
(* The operations of the block on its Optional<Int&> variables.            *)

\* What an operation on an Optional<Int&> finds: the Ints and the pointers.
RefPre == [ext |-> ext, ptr |-> m_ptr]

\* r = SomeRef(e);
RefAssignSomeRef(r, e) ==
  /\ Running /\ NoOptionalInScope
  /\ LET out == ref_assign_SomeRef(Mem, m_ptr, r, e)
     IN /\ m_ptr' = out.ptr
        /\ Commit(out.mem, Last("ref operator=(SomeRef)", r, e, m_ptr[r] # "null",
                                FALSE, RefPre, <<"ref", <<"optional", r>>>>))
  /\ UNCHANGED <<pc, ndebug, alive, hist>>

\* r = None;  (line 722)
RefAssignNone(r) ==
  /\ Running /\ NoOptionalInScope
  /\ m_ptr' = ref_assign_None(Mem, m_ptr, r).ptr
  /\ \E out \in FlowsOffTheEnd(<<"optional", r>>) :
       /\ pc' = out.pc
       /\ Commit(ref_assign_None(Mem, m_ptr, r).mem,
                 Last("ref operator=(None)", r, "-", m_ptr[r] # "null",
                      FALSE, RefPre, out.ret))
  /\ UNCHANGED <<ndebug, alive, hist>>

\* r.reset();  (line 792)
RefReset(r) ==
  /\ Running /\ NoOptionalInScope
  /\ m_ptr' = ref_reset(Mem, m_ptr, r).ptr
  /\ Commit(ref_reset(Mem, m_ptr, r).mem,
            Last("ref reset", r, "-", m_ptr[r] # "null", FALSE, RefPre, NoRet))
  /\ UNCHANGED <<pc, ndebug, alive, hist>>

\* r.value();
RefValue(r) ==
  /\ Running /\ NoOptionalInScope
  /\ \E out \in (IF ref_value(r).abort
                 THEN {[pc |-> "aborted", ret |-> NoRet]}
                 ELSE IF m_ptr[r] = "null"
                 THEN NullDereference
                 ELSE {[pc |-> "running", ret |-> ref_value(r).ret]}) :
       /\ pc' = out.pc
       /\ Commit(Mem, Last("ref value", r, "-", m_ptr[r] # "null", FALSE, Raw,
                           out.ret))
  /\ UNCHANGED <<ndebug, alive, m_ptr, hist>>

\* *r;
RefDeref(r) ==
  /\ Running /\ NoOptionalInScope
  /\ \E out \in (IF ref_deref(r).abort
                 THEN {[pc |-> "aborted", ret |-> NoRet]}
                 ELSE IF m_ptr[r] = "null"
                 THEN NullDereference
                 ELSE {[pc |-> "running", ret |-> ref_deref(r).ret]}) :
       /\ pc' = out.pc
       /\ Commit(Mem, Last("ref operator*", r, "-", m_ptr[r] # "null", FALSE, Raw,
                           out.ret))
  /\ UNCHANGED <<ndebug, alive, m_ptr, hist>>

\* r.operator->();  (lines 737-741: CHECK(m_ptr), then `return m_ptr`)
RefArrow(r) ==
  /\ Running /\ NoOptionalInScope
  /\ pc' = IF ref_deref(r).abort THEN "aborted" ELSE pc
  /\ Commit(Mem, Last("ref operator->", r, "-", m_ptr[r] # "null", FALSE, Raw,
                      IF ref_deref(r).abort THEN NoRet
                      ELSE <<"ptr", <<"ext", m_ptr[r]>>>>))
  /\ UNCHANGED <<ndebug, alive, m_ptr, hist>>

-----------------------------------------------------------------------------
\* The end of the block: every Optional<Int> is gone, and the Ints of Exts
\* are destroyed (test.cpp:498-500).
BlockExit ==
  /\ Running /\ NoOptionalInScope
  /\ pc' = "done"
  /\ m_ptr' = [r \in Refs |-> "null"]
  /\ Commit([Mem EXCEPT !.ext = [e \in Exts |-> Raw],
                        !.dtor = @ + Cardinality(Exts)],
            Last("exit", "-", "-", FALSE, FALSE, Raw, NoRet))
  /\ UNCHANGED <<ndebug, alive, hist>>

Next ==
  \/ \E o \in Opts : ConstructDefault(o)
  \/ \E o \in Opts : ConstructNone(o)
  \/ \E o \in Opts : \E other \in Opts \ {o} : ConstructCopy(o, other)
  \/ \E o \in Opts : \E other \in Opts \ {o} : ConstructMove(o, other)
  \/ \E o \in Opts, x \in Values : ConstructInPlace(o, x)
  \/ \E o \in Opts, x \in Somes : ConstructSome(o, x)
  \/ \E o \in Opts : Destroy(o)
  \/ \E o \in Opts : AssignNone(o)
  \/ \E o \in Opts, other \in Opts : AssignCopy(o, other)
  \/ \E o \in Opts, other \in Opts : AssignMove(o, other)
  \/ \E o \in Opts, x \in Somes : AssignSome(o, x)
  \/ \E o \in Opts, other \in Opts : Swap(o, other)
  \/ \E o \in Opts : Reset(o)
  \/ \E o \in Opts, x \in Values : Emplace(o, x)
  \/ \E o \in Opts : HasValue(o)
  \/ \E o \in Opts : Value(o)
  \/ \E o \in Opts : Deref(o)
  \/ \E o \in Opts : Arrow(o)
  \/ \E r \in Refs, e \in Exts : RefAssignSomeRef(r, e)
  \/ \E r \in Refs : RefAssignNone(r)
  \/ \E r \in Refs : RefReset(r)
  \/ \E r \in Refs : RefValue(r)
  \/ \E r \in Refs : RefDeref(r)
  \/ \E r \in Refs : RefArrow(r)
  \/ BlockExit

Spec == Init /\ [][Next]_vars
-----------------------------------------------------------------------------
(* and_then, transform, or_else and value_or.  They are applied to the     *)
(* optionals that construction from Some and None and binding to an Int    *)
(* give (SpecMonadic below).  A result of type Optional<Int> is the        *)
(* initializer of a new variable d of the block (`auto d = o.transform(f)`)*)
(* and so is constructed in d itself; a result of another type is          *)
(* recorded in last.ret with the number of times the callback ran.         *)

\* The results that hold no Int: an Optional<int> with a value, an
\* Optional<Int&> bound to the object at a place, a disengaged optional.
OptInt(v) == [type |-> "Optional<int>", engaged |-> TRUE, held |-> v]
OptRef(p) == [type |-> "Optional<Int&>", engaged |-> TRUE, held |-> p]
Disengaged(type) == [type |-> type, engaged |-> FALSE, held |-> <<"none">>]

\* The callbacks given to and_then:
\*   to_int  [](const Int& v) -> Optional<int> { return Some(v.value + 1); }
\*   to_ref  [](Int& v) -> Optional<Int&> { return SomeRef(v); }
\*   to_Int  [](const Int& v) -> Optional<Int> { return Some(v + 1); }
\*           (test.cpp:273)
AndThenFs == {"to_int", "to_ref", "to_Int"}

\* std::remove_cvref_t<std::invoke_result_t<F, T>> (lines 300-301).
bare_result_type(f) ==
  CASE f = "to_int" -> "Optional<int>"
    [] f = "to_ref" -> "Optional<Int&>"
    [] OTHER -> "Optional<Int>"

\* Whether `type{}` and `type()` compile: Optional<int> and Optional<Int&>
\* (line 712) have a default constructor, Optional<Int>'s is deleted.
value_initializable(type) ==
  ~(type = "Optional<Int>" /\ default_constructor_deleted)

\* std::invoke(f, arg), arg the object at place p: no callback writes to its
\* argument or calls a member of Int on it.
invoke(f, m, p) ==
  CASE f = "to_int" -> OptInt(At(m, p).value + 1)
    [] f = "to_ref" -> OptRef(p)
    [] OTHER -> Disengaged("Optional<Int>")

\* optional_detail::maybe_invoke(f, arg, cond) (lines 303-312).
maybe_invoke(f, m, p, cond) ==
  IF cond
  THEN [invoked |-> 1, result |-> invoke(f, m, p)]
  ELSE [invoked |-> 0, result |-> Disengaged(bare_result_type(f))]

\* and_then(F&& f) & (lines 535-540).
and_then(o, f) == maybe_invoke(f, Mem, Payload(o), m_engaged[o])

\* Optional<T&>::and_then(F&& f) const (lines 758-764).
ref_and_then(r, f) ==
  IF m_ptr[r] # "null"
  THEN [invoked |-> 1, result |-> invoke(f, Mem, <<"ext", m_ptr[r]>>)]
  ELSE [invoked |-> 0, result |-> Disengaged(bare_result_type(f))]

\* o.and_then(f);  The return statement of maybe_invoke for a false cond
\* (line 310) is instantiated with the rest, so the call compiles only if
\* f's optional type can be value-initialized.
AndThen(o, f) ==
  /\ Running /\ alive[o]
  /\ IF ~value_initializable(bare_result_type(f))
     THEN Rejected("and_then", o, f)
     ELSE /\ Commit(Mem, Last("and_then", o, f, m_engaged[o], FALSE,
                              m_payload[o], and_then(o, f)))
          /\ UNCHANGED <<pc, ndebug, alive, m_ptr, hist>>

\* r.and_then(f);  (line 763 value-initializes f's optional type)
RefAndThen(r, f) ==
  /\ Running
  /\ IF ~value_initializable(bare_result_type(f))
     THEN Rejected("ref and_then", r, f)
     ELSE /\ Commit(Mem, Last("ref and_then", r, f, m_ptr[r] # "null", FALSE,
                              IF m_ptr[r] # "null" THEN ext[m_ptr[r]] ELSE Raw,
                              ref_and_then(r, f)))
          /\ UNCHANGED <<pc, ndebug, alive, m_ptr, hist>>

\* The callbacks given to transform:
\*   plus_one  [](const Int& n) { return Int(n.value + 1); }        -> Int
\*   identity  std::identity{} (test.cpp:392, 413)                  -> Int&
\*   move      [](Int& n) -> Int&& { return std::move(n); }         -> Int&&
TransformFs == {"plus_one", "identity", "move"}

\* std::invoke_result_t<F, T&> (lines 567, 769).
result_type(f) ==
  CASE f = "plus_one" -> "Int"
    [] f = "identity" -> "Int&"
    [] OTHER -> "Int&&"

\* Whether the member's text `Optional(SomeRef(...))` (lines 573, 774)
\* compiles.  Inside a class template its own name is the injected class
\* name, the class itself, and no template whose arguments are to be deduced:
\* the text constructs an object of the enclosing class from a SomeRef<T>.
\* Optional<T&> has that constructor (lines 717-720), Optional<T> has none.
constructible_from_SomeRef(class) == class = "Optional<Int&>"

\* A constructor that has the callback's result in a temporary and moves it
\* into the payload.
Optional_invoke_temporary(m, d, f, u) ==
  LET t == IF f = "plus_one"
           THEN ConstructFromValue(m, <<"tmp">>, At(m, u).value + 1)
           ELSE MoveConstruct(m, <<"tmp">>, u)
  IN SetEngaged(Destruct(MoveConstruct(t, Payload(d), <<"tmp">>), <<"tmp">>),
                d, TRUE)

\* Optional(F&& f, U&& u) (lines 700-705): m_payload(std::invoke(f, u)),
\* m_engaged{true}; u is the object at place u.  The Int that plus_one returns
\* is m_payload itself; the Int&& that move returns selects Int(Int&&).
Optional_invoke(m, d, f, u) ==
  SetEngaged(IF f = "plus_one"
             THEN ConstructFromValue(m, Payload(d), At(m, u).value + 1)
             ELSE MoveConstruct(m, Payload(d), u),
             d, TRUE)

\* transform(F&& f) & (lines 564-577) with a callback that returns Int or
\* Int&&, as the initializer of d: m_engaged ? Optional<Int>(f, m_payload)
\* : None.
transform(m, o, d, f) ==
  IF m.eng[o]
  THEN [invoked |-> 1, mem |-> Optional_invoke(m, d, f, Payload(o))]
  ELSE [invoked |-> 0, mem |-> m]

\* transform(F&& f) & with a callback that returns Int& (lines 572-573):
\* m_engaged ? Optional(SomeRef(std::invoke(f, m_payload))) : None.
transform_ref(o, f) ==
  IF m_engaged[o]
  THEN [invoked |-> 1, result |-> OptRef(Payload(o))]
  ELSE [invoked |-> 0, result |-> Disengaged("Optional<Int&>")]

\* Optional<T&>::transform(F&& f) const (lines 766-778) with a callback that
\* returns Int or Int&&: m_ptr ? Optional<Int>(f, *m_ptr) : None.
ref_transform(m, r, d, f) ==
  IF m_ptr[r] # "null"
  THEN [invoked |-> 1, mem |-> Optional_invoke(m, d, f, <<"ext", m_ptr[r]>>)]
  ELSE [invoked |-> 0, mem |-> m]

\* Optional<T&>::transform with a callback that returns Int& (lines 773-774).
ref_transform_ref(r, f) ==
  IF m_ptr[r] # "null"
  THEN [invoked |-> 1, result |-> OptRef(<<"ext", m_ptr[r]>>)]
  ELSE [invoked |-> 0, result |-> Disengaged("Optional<Int&>")]

\* The referent of r, if it has one.
Referent(r) == IF m_ptr[r] # "null" THEN ext[m_ptr[r]] ELSE Raw

\* auto d = o.transform(f);  f returning Int or Int&&
Transform(o, d, f) ==
  /\ Running /\ alive[o] /\ ~alive[d]
  /\ result_type(f) # "Int&"
  /\ LET out == transform(Mem, o, d, f)
     IN Commit(out.mem,
               Last("transform", o, f, m_engaged[o], FALSE, m_payload[o],
                    [invoked |-> out.invoked, result |-> <<"optional", d>>]))
  /\ alive' = [alive EXCEPT ![d] = TRUE]
  /\ hist' = SetBy(hist, d, IF m_engaged[o] THEN "construct" ELSE "construct_empty")
  /\ UNCHANGED <<pc, ndebug, m_ptr>>

\* o.transform(f);  f returning Int&
TransformRef(o, f) ==
  /\ Running /\ alive[o]
  /\ result_type(f) = "Int&"
  /\ IF ~constructible_from_SomeRef("Optional<Int>")
     THEN Rejected("transform", o, f)
     ELSE /\ Commit(Mem, Last("transform", o, f, m_engaged[o], FALSE,
                              m_payload[o], transform_ref(o, f)))
          /\ UNCHANGED <<pc, ndebug, alive, m_ptr, hist>>

\* auto d = r.transform(f);  f returning Int or Int&&
RefTransform(r, d, f) ==
  /\ Running /\ ~alive[d]
  /\ result_type(f) # "Int&"
  /\ LET out == ref_transform(Mem, r, d, f)
     IN Commit(out.mem,
               Last("ref transform", r, f, m_ptr[r] # "null", FALSE, Referent(r),
                    [invoked |-> out.invoked, result |-> <<"optional", d>>]))
  /\ alive' = [alive EXCEPT ![d] = TRUE]
  /\ hist' = SetBy(hist, d, IF m_ptr[r] # "null" THEN "construct"
                            ELSE "construct_empty")
  /\ UNCHANGED <<pc, ndebug, m_ptr>>

\* r.transform(f);  f returning Int&
RefTransformRef(r, f) ==
  /\ Running
  /\ result_type(f) = "Int&"
  /\ IF ~constructible_from_SomeRef("Optional<Int&>")
     THEN Rejected("ref transform", r, f)
     ELSE /\ Commit(Mem, Last("ref transform", r, f, m_ptr[r] # "null", FALSE,
                              Referent(r), ref_transform_ref(r, f)))
          /\ UNCHANGED <<pc, ndebug, alive, m_ptr, hist>>

\* The callbacks given to Optional<Int>::or_else, all taking no argument:
\*   <<"lit", k>>  []() -> Optional<Int> { return Some(k); }   (test.cpp:300)
\*   <<"none">>    []() -> Optional<Int> { return None; }
OrElseFs == {<<"lit", v>> : v \in Values} \cup {<<"none">>}

\* The optional the callback returns, as the initializer of d.
invoke_nullary(m, d, f) ==
  IF f[1] = "lit" THEN Optional_Some(m, d, f) ELSE SetEngaged(m, d, FALSE)

\* or_else(F&& f) const& (lines 628-636), as the initializer of d:
\* m_engaged ? *this : std::invoke(f).
or_else(m, o, d, f) ==
  IF m.eng[o]
  THEN [invoked |-> 0, mem |-> Optional_copy(m, d, o)]
  ELSE [invoked |-> 1, mem |-> invoke_nullary(m, d, f)]

\* or_else(F&& f) && (lines 638-646): m_engaged ? std::move(*this)
\* : std::invoke(f).
or_else_rvalue(m, o, d, f) ==
  IF m.eng[o]
  THEN [invoked |-> 0, mem |-> Optional_move(m, d, o)]
  ELSE [invoked |-> 1, mem |-> invoke_nullary(m, d, f)]

\* The callbacks given to Optional<Int&>::or_else, by the number of arguments
\* they take:
\*   nullary  []() { return Optional<Int&>(); }                (test.cpp:489)
\*   unary    [](Int&) { return Optional<Int&>(); }
RefOrElseFs == {"nullary", "unary"}
arity(f) == IF f = "nullary" THEN 0 ELSE 1

\* The constraint of Optional<T&>::or_else (lines 782-784): the conjunction of
\* is_same<bare_result_type<F, T&>, Optional<T&>>, which needs F to be
\* callable with a T&, and is_invocable<F>, which needs it to be callable
\* with nothing.
ref_or_else_constraint(f) == arity(f) = 1 /\ arity(f) = 0

\* Optional<T&>::or_else(F&& f) const (lines 780-787): m_ptr ? *this
\* : std::invoke(f).
ref_or_else(r, f) ==
  IF m_ptr[r] # "null"
  THEN [invoked |-> 0, result |-> OptRef(<<"ext", m_ptr[r]>>)]
  ELSE [invoked |-> 1, result |-> Disengaged("Optional<Int&>")]

\* auto d = o.or_else(f);
OrElse(o, d, f) ==
  /\ Running /\ alive[o] /\ ~alive[d]
  /\ LET out == or_else(Mem, o, d, f)
     IN Commit(out.mem,
               Last("or_else", o, f, m_engaged[o], FALSE, m_payload[o],
                    [invoked |-> out.invoked, result |-> <<"optional", d>>]))
  /\ alive' = [alive EXCEPT ![d] = TRUE]
  /\ hist' = SetBy(hist, d, IF m_engaged[o] THEN "copy_from_engaged"
                            ELSE IF f[1] = "lit" THEN "construct"
                            ELSE "construct_empty")
  /\ UNCHANGED <<pc, ndebug, m_ptr>>

\* auto d = std::move(o).or_else(f);
OrElseRvalue(o, d, f) ==
  /\ Running /\ alive[o] /\ ~alive[d]
  /\ LET out == or_else_rvalue(Mem, o, d, f)
     IN Commit(out.mem,
               Last("or_else &&", o, f, m_engaged[o], FALSE, m_payload[o],
                    [invoked |-> out.invoked, result |-> <<"optional", d>>]))
  /\ alive' = [alive EXCEPT ![d] = TRUE]
  /\ hist' = MovedAway(SetBy(hist, d, IF m_engaged[o] THEN "move_from_engaged"
                                      ELSE IF f[1] = "lit" THEN "construct"
                                      ELSE "construct_empty"),
                       o)
  /\ UNCHANGED <<pc, ndebug, m_ptr>>

\* r.or_else(f);
RefOrElse(r, f) ==
  /\ Running
  /\ IF ~ref_or_else_constraint(f)
     THEN Rejected("ref or_else", r, f)
     ELSE /\ Commit(Mem, Last("ref or_else", r, f, m_ptr[r] # "null", FALSE,
                              Referent(r), ref_or_else(r, f)))
          /\ UNCHANGED <<pc, ndebug, alive, m_ptr, hist>>

\* A value_or that converts the default whether the optional holds a value
\* or not.
value_or_ignores_payload(m, o, x) ==
  CASE x[1] = "lit" -> ConstructFromValue(m, <<"tmp">>, x[2])
    [] x[1] = "lvalue" -> CopyConstruct(m, <<"tmp">>, SomePlace(x))
    [] OTHER -> MoveConstruct(m, <<"tmp">>, SomePlace(x))

\* value_or(U&& default_value) const& (lines 523-527): m_engaged ? m_payload
\* : static_cast<T>(std::forward<U>(default_value)).  The Int it returns is
\* the temporary; x is the default as the caller wrote it: an int, an Int
\* lvalue or an Int rvalue.
value_or(m, o, x) ==
  IF m.eng[o] THEN CopyConstruct(m, <<"tmp">>, Payload(o))
  ELSE CASE x[1] = "lit" -> ConstructFromValue(m, <<"tmp">>, x[2])
         [] x[1] = "lvalue" -> CopyConstruct(m, <<"tmp">>, SomePlace(x))
         [] OTHER -> MoveConstruct(m, <<"tmp">>, SomePlace(x))

\* value_or(U&& default_value) && (lines 529-533): m_engaged
\* ? std::move(m_payload) : static_cast<T>(std::forward<U>(default_value)).
value_or_rvalue(m, o, x) ==
  IF m.eng[o] THEN MoveConstruct(m, <<"tmp">>, Payload(o))
  ELSE CASE x[1] = "lit" -> ConstructFromValue(m, <<"tmp">>, x[2])
         [] x[1] = "lvalue" -> CopyConstruct(m, <<"tmp">>, SomePlace(x))
         [] OTHER -> MoveConstruct(m, <<"tmp">>, SomePlace(x))

\* Optional<T&>::value_or(T& default_value) const (lines 753-756): m_ptr
\* ? *m_ptr : default_value; p is the place of the default.
ref_value_or(r, p) == IF m_ptr[r] # "null" THEN <<"ext", m_ptr[r]>> ELSE p

\* The Int lvalues a default can name: the Ints of Exts and the payloads of
\* the engaged optionals.
Lvalues ==
  {<<"ext", e>> : e \in Exts} \cup {Payload(o) : o \in {q \in Opts : m_engaged[q]}}

\* o.value_or(x);  The Int returned is destroyed at the end of the statement.
ValueOr(o, x) ==
  /\ Running /\ alive[o]
  /\ LET m == value_or(Mem, o, x)
     IN Commit(Destruct(m, <<"tmp">>),
               Last("value_or", o, x, m_engaged[o], FALSE,
                    <<m_payload[o], At(Mem, SomePlace(x))>>, m.tmp))
  /\ UNCHANGED <<pc, ndebug, alive, m_ptr, hist>>

\* std::move(o).value_or(x);
ValueOrRvalue(o, x) ==
  /\ Running /\ alive[o]
  /\ LET m == value_or_rvalue(Mem, o, x)
     IN Commit(Destruct(m, <<"tmp">>),
               Last("value_or &&", o, x, m_engaged[o], FALSE,
                    <<m_payload[o], At(Mem, SomePlace(x))>>, m.tmp))
  /\ UNCHANGED <<pc, ndebug, alive, m_ptr, hist>>

\* r.value_or(p);
RefValueOr(r, p) ==
  /\ Running
  /\ p \in Lvalues
  /\ Commit(Mem, Last("ref value_or", r, p, m_ptr[r] # "null", FALSE,
                      Referent(r), ref_value_or(r, p)))
  /\ UNCHANGED <<pc, ndebug, alive, m_ptr, hist>>

\* r = SomeRef(e), at any point of the block.
RefBind(r, e) ==
  /\ Running
  /\ m_ptr' = [m_ptr EXCEPT ![r] = ref_bind(e)]
  /\ Commit(Mem, Last("ref operator=(SomeRef)", r, e, m_ptr[r] # "null", FALSE, Raw,
                      <<"ref", <<"optional", r>>>>))
  /\ UNCHANGED <<pc, ndebug, alive, hist>>

NextMonadic ==
  \/ \E o \in Opts : ConstructNone(o)
  \/ \E o \in Opts, x \in Somes : ConstructSome(o, x)
  \/ \E r \in Refs, e \in Exts : RefBind(r, e)
  \/ \E o \in Opts, f \in AndThenFs : AndThen(o, f)
  \/ \E r \in Refs, f \in AndThenFs : RefAndThen(r, f)
  \/ \E o \in Opts, d \in Opts, f \in TransformFs : Transform(o, d, f)
  \/ \E o \in Opts, f \in TransformFs : TransformRef(o, f)
  \/ \E r \in Refs, d \in Opts, f \in TransformFs : RefTransform(r, d, f)
  \/ \E r \in Refs, f \in TransformFs : RefTransformRef(r, f)
  \/ \E o \in Opts, d \in Opts, f \in OrElseFs : OrElse(o, d, f)
  \/ \E o \in Opts, d \in Opts, f \in OrElseFs : OrElseRvalue(o, d, f)
  \/ \E r \in Refs, f \in RefOrElseFs : RefOrElse(r, f)
  \/ \E o \in Opts, x \in Somes : ValueOr(o, x)
  \/ \E o \in Opts, x \in Somes : ValueOrRvalue(o, x)
  \/ \E r \in Refs, p \in {<<"ext", e>> : e \in Exts} \cup {Payload(o) : o \in Opts} :
       RefValueOr(r, p)

SpecMonadic == Init /\ [][NextMonadic]_vars

-----------------------------------------------------------------------------
(* The block of test.cpp:428-449 on Optional<Int&>: two Ints, y and z, and *)
(* two optional references that are bound, rebound, copied, swapped and    *)
(* written through (SpecRef below).  Optional<Int&> is trivially           *)
(* destructible, so a declaration may be met again after its block was     *)
(* left: it starts the variable afresh.                                    *)

RefOpts == {"r", "s"}
RefExts == {"y", "z"}

\* `Int y = 1; Int z = MaxVal;`
RefExtValue(e) == IF e = "y" THEN 1 ELSE MaxVal

InitRef ==
  /\ pc = "running"
  /\ ndebug \in BOOLEAN
  /\ alive = [o \in Opts |-> FALSE]
  /\ m_engaged = [o \in Opts |-> FALSE]
  /\ m_payload = [o \in Opts |-> Raw]
  /\ ext = [e \in RefExts |-> IntFromValue(RefExtValue(e))]
  /\ m_ptr = [r \in RefOpts |-> "null"]
  /\ constructed = Cardinality(RefExts)
  /\ destroyed = 0
  /\ calls = <<>>
  /\ last = Last("init", "-", "-", FALSE, FALSE, Raw, NoRet)
  /\ hist = [o \in Opts |-> NoHist]

\* Optional<Int&> r = None;  (line 715, with m_ptr{nullptr} of line 795)
RefConstructNone(r) ==
  /\ Running
  /\ m_ptr' = [m_ptr EXCEPT ![r] = "null"]
  /\ Commit(Mem, Last("ref Optional(None)", r, "-", FALSE, FALSE, RefPre, NoRet))
  /\ UNCHANGED <<pc, ndebug, alive, hist>>

\* Optional<Int&> r = SomeRef(e);  (lines 717-720)
RefConstructSomeRef(r, e) ==
  /\ Running
  /\ m_ptr' = [m_ptr EXCEPT ![r] = ref_bind(e)]
  /\ Commit(Mem, Last("ref Optional(SomeRef)", r, e, FALSE, FALSE, RefPre, NoRet))
  /\ UNCHANGED <<pc, ndebug, alive, hist>>

\* Optional<Int&> r(other);  (line 713: the pointer is copied)
RefConstructCopy(r, other) ==
  /\ Running
  /\ m_ptr' = [m_ptr EXCEPT ![r] = m_ptr[other]]
  /\ Commit(Mem, Last("ref Optional(const Optional&)", r, other, FALSE,
                      m_ptr[other] # "null", RefPre, NoRet))
  /\ UNCHANGED <<pc, ndebug, alive, hist>>

\* r = other;
RefAssignCopy(r, other) ==
  /\ Running
  /\ LET out == ref_assign_copy(Mem, m_ptr, r, other)
     IN /\ m_ptr' = out.ptr
        /\ Commit(out.mem, Last("ref operator=(const Optional&)", r, other,
                                m_ptr[r] # "null", m_ptr[other] # "null",
                                RefPre, <<"ref", <<"optional", r>>>>))
  /\ UNCHANGED <<pc, ndebug, alive, hist>>

\* r = std::move(other);
RefAssignMove(r, other) ==
  /\ Running
  /\ LET out == ref_assign_move(Mem, m_ptr, r, other)
     IN /\ m_ptr' = out.ptr
        /\ Commit(out.mem, Last("ref operator=(Optional&&)", r, other,
                                m_ptr[r] # "null", m_ptr[other] # "null",
                                RefPre, <<"ref", <<"optional", r>>>>))
  /\ UNCHANGED <<pc, ndebug, alive, hist>>

\* r.swap(other);  and swap(r, other) (line 790), which calls it.
RefSwap(r, other) ==
  /\ Running
  /\ LET out == ref_swap(Mem, m_ptr, r, other)
     IN /\ m_ptr' = out.ptr
        /\ Commit(out.mem, Last("ref swap", r, other, m_ptr[r] # "null",
                                m_ptr[other] # "null", RefPre, NoRet))
  /\ UNCHANGED <<pc, ndebug, alive, hist>>

\* What a write through the null pointer that operator* returned can do: the
\* process faults, or it goes on with the write gone elsewhere or over one of
\* the Ints.
WildWrite(m, v) ==
  {[pc |-> "crashed", mem |-> m], [pc |-> "running", mem |-> m]}
    \cup {[pc |-> "running", mem |-> ValueAssign(m, <<"ext", e>>, v)] :
            e \in DOMAIN m.ext}

\* *r = v;  (test.cpp:443): operator* (lines 731-735), then Int::operator=(int)
\* on the Int it returned.
RefWrite(r, v) ==
  /\ Running
  /\ \E out \in (IF ref_deref(r).abort
                 THEN {[pc |-> "aborted", mem |-> Mem]}
                 ELSE IF m_ptr[r] = "null"
                 THEN WildWrite(Mem, v)
                 ELSE {[pc |-> "running",
                        mem |-> ValueAssign(Mem, ref_deref(r).ret[2], v)]}) :
       /\ pc' = out.pc
       /\ Commit(out.mem, Last("ref write", r, v, m_ptr[r] # "null", FALSE,
                               RefPre, NoRet))
  /\ UNCHANGED <<ndebug, alive, m_ptr, hist>>

NextRef ==
  \/ \E r \in RefOpts : RefConstructNone(r)
  \/ \E r \in RefOpts, e \in RefExts : RefConstructSomeRef(r, e)
  \/ \E r \in RefOpts : \E other \in RefOpts \ {r} : RefConstructCopy(r, other)
  \/ \E r \in RefOpts, e \in RefExts : RefAssignSomeRef(r, e)
  \/ \E r \in RefOpts : RefAssignNone(r)
  \/ \E r \in RefOpts, other \in RefOpts : RefAssignCopy(r, other)
  \/ \E r \in RefOpts, other \in RefOpts : RefAssignMove(r, other)
  \/ \E r \in RefOpts, other \in RefOpts : RefSwap(r, other)
  \/ \E r \in RefOpts : RefReset(r)
  \/ \E r \in RefOpts : RefValue(r)
  \/ \E r \in RefOpts : RefDeref(r)
  \/ \E r \in RefOpts : RefArrow(r)
  \/ \E r \in RefOpts, v \in Values : RefWrite(r, v)

SpecRef == InitRef /\ [][NextRef]_vars

-----------------------------------------------------------------------------
(* The comparison operators (src/slm_assert.hpp:813-882).  They are        *)
(* templates over Optional<T>, and so take Optional<Int> and Optional<Int&>*)
(* alike.  An operand is <<"opt", o>> (the Optional<Int> o), <<"ref", r>>  *)
(* (the Optional<Int&> r), <<"None">>, <<"lit", v>> (the int v) or         *)
(* <<"ext", e>> (the Int e).  Each operator is a function of the memory m  *)
(* and the pointers p, giving the memory after the call and the result.    *)

IsOptional(x) == x[1] \in {"opt", "ref"}

\* explicit operator bool (lines 495 and 743).
to_bool(m, p, x) == IF x[1] = "opt" THEN m.eng[x[2]] ELSE p[x[2]] # "null"

\* operator* on an engaged optional: where the Int is.
star(p, x) == IF x[1] = "opt" THEN Payload(x[2]) ELSE <<"ext", p[x[2]]>>

\* Int::operator==(const Int&) (test.cpp:217).
Int_eq(x, y) == x.value = y.value

\* Int::operator<=>(const Int&) (test.cpp:218): value <=> other.value.
Int_cmp(x, y) ==
  IF x.value < y.value THEN "less"
  ELSE IF x.value > y.value THEN "greater"
  ELSE "equivalent"

\* operator==(const Optional<T>& a, const Optional<U>& b) (lines 817-830).
eq_optional_optional(m, p, a, b) ==
  [mem |-> m,
   ret |-> IF to_bool(m, p, a)
           THEN IF to_bool(m, p, b)
                THEN Int_eq(At(m, star(p, a)), At(m, star(p, b)))
                ELSE FALSE
           ELSE IF to_bool(m, p, b) THEN FALSE
           ELSE TRUE]

\* An ordering of optionals that puts the disengaged one last.
cmp_disengaged_last(m, p, a, b) ==
  [mem |-> m,
   ret |-> IF to_bool(m, p, a)
           THEN IF to_bool(m, p, b)
                THEN Int_cmp(At(m, star(p, a)), At(m, star(p, b)))
                ELSE "less"
           ELSE IF to_bool(m, p, b) THEN "greater"
           ELSE "equivalent"]

\* operator<=>(const Optional<T>& a, const Optional<U>& b) (lines 832-845).
cmp_optional_optional(m, p, a, b) ==
  [mem |-> m,
   ret |-> IF to_bool(m, p, a)
           THEN IF to_bool(m, p, b)
                THEN Int_cmp(At(m, star(p, a)), At(m, star(p, b)))
                ELSE "greater"
           ELSE IF to_bool(m, p, b) THEN "less"
           ELSE "equivalent"]

\* operator==(const Optional<T>& a, const NoneType&) (lines 847-852).
eq_optional_None(m, p, a) == [mem |-> m, ret |-> ~to_bool(m, p, a)]

\* An ordering in which every optional is equivalent to None.
cmp_None_always_equivalent(m, p, a) == [mem |-> m, ret |-> "equivalent"]

\* operator<=>(const Optional<T>& a, const NoneType&) (lines 854-859).
cmp_optional_None(m, p, a) ==
  [mem |-> m, ret |-> IF to_bool(m, p, a) THEN "greater" ELSE "equivalent"]

\* The argument of Int's operator for the bare value b: an int is converted
\* to a temporary Int by Int(int), an Int is passed as it is.
Converted(m, b) ==
  IF b[1] = "lit" THEN ConstructFromValue(m, <<"tmp">>, b[2]) ELSE m
ConvertedPlace(b) == IF b[1] = "lit" THEN <<"tmp">> ELSE b
\* The temporary is destroyed when the comparison is done.
Discarded(m, b) == IF b[1] = "lit" THEN Destruct(m, <<"tmp">>) ELSE m

\* operator==(const Optional<T>& a, const U& b) (lines 865-871):
\* a && *a == b.
eq_optional_value(m, p, a, b) ==
  IF to_bool(m, p, a)
  THEN LET m1 == Converted(m, b)
       IN [mem |-> Discarded(m1, b),
           ret |-> Int_eq(At(m1, star(p, a)), At(m1, ConvertedPlace(b)))]
  ELSE [mem |-> m, ret |-> FALSE]

\* An ordering against a bare value in which a disengaged optional is
\* equivalent to every value.
cmp_value_disengaged_equivalent(m, p, a, b) ==
  IF to_bool(m, p, a)
  THEN LET m1 == Converted(m, b)
       IN [mem |-> Discarded(m1, b),
           ret |-> Int_cmp(At(m1, star(p, a)), At(m1, ConvertedPlace(b)))]
  ELSE [mem |-> m, ret |-> "equivalent"]

\* operator<=>(const Optional<T>& a, const U& b) (lines 873-882).
cmp_optional_value(m, p, a, b) ==
  IF to_bool(m, p, a)
  THEN LET m1 == Converted(m, b)
       IN [mem |-> Discarded(m1, b),
           ret |-> Int_cmp(At(m1, star(p, a)), At(m1, ConvertedPlace(b)))]
  ELSE [mem |-> m, ret |-> "less"]

\* A reversal that leaves the ordering as it is.
reverse_keeps(c) == c

\* 0 <=> c: what the language makes of y <=> x when only x <=> y is declared
\* and gives c.
reverse(c) ==
  CASE c = "less" -> "greater"
    [] c = "greater" -> "less"
    [] OTHER -> c

\* a == b: the operator the call selects.  With the optional on the right
\* only the rewritten candidate b == a matches.
operator_eq(m, p, a, b) ==
  CASE IsOptional(a) /\ IsOptional(b) -> eq_optional_optional(m, p, a, b)
    [] IsOptional(a) /\ b[1] = "None" -> eq_optional_None(m, p, a)
    [] a[1] = "None" -> eq_optional_None(m, p, b)
    [] IsOptional(a) -> eq_optional_value(m, p, a, b)
    [] OTHER -> eq_optional_value(m, p, b, a)

\* a <=> b: the operator the call selects; with the optional on the right,
\* the rewritten candidate 0 <=> (b <=> a).
operator_cmp(m, p, a, b) ==
  CASE IsOptional(a) /\ IsOptional(b) -> cmp_optional_optional(m, p, a, b)
    [] IsOptional(a) /\ b[1] = "None" -> cmp_optional_None(m, p, a)
    [] a[1] = "None" ->
         [cmp_optional_None(m, p, b) EXCEPT !.ret = reverse(@)]
    [] IsOptional(a) -> cmp_optional_value(m, p, a, b)
    [] OTHER -> [cmp_optional_value(m, p, b, a) EXCEPT !.ret = reverse(@)]

\* The operands of a comparison in the block: its optionals in scope, None,
\* ints and Ints.
OptionalOperands ==
  {<<"opt", o>> : o \in {q \in Opts : alive[q]}} \cup {<<"ref", r>> : r \in Refs}
Operands ==
  OptionalOperands \cup {<<"None">>} \cup {<<"lit", v>> : v \in Values}
    \cup {<<"ext", e>> : e \in Exts}

\* Whether the optional operand x holds a value, and the Int it holds.
Holds(x) == to_bool(Mem, m_ptr, x)
Held(x) == At(Mem, star(m_ptr, x))

\* a == b;  with at least one optional among a and b.
Equal(a, b) ==
  /\ Running
  /\ IsOptional(a) \/ IsOptional(b)
  /\ LET out == operator_eq(Mem, m_ptr, a, b)
     IN Commit(out.mem, Last("==", a, b, IsOptional(a) /\ Holds(a),
                             IsOptional(b) /\ Holds(b), Raw, out.ret))
  /\ UNCHANGED <<pc, ndebug, alive, m_ptr, hist>>

\* a <=> b;  with at least one optional among a and b.
ThreeWay(a, b) ==
  /\ Running
  /\ IsOptional(a) \/ IsOptional(b)
  /\ LET out == operator_cmp(Mem, m_ptr, a, b)
     IN Commit(out.mem, Last("<=>", a, b, IsOptional(a) /\ Holds(a),
                             IsOptional(b) /\ Holds(b), Raw, out.ret))
  /\ UNCHANGED <<pc, ndebug, alive, m_ptr, hist>>

NextCompare ==
  \/ \E o \in Opts : ConstructNone(o)
  \/ \E o \in Opts, x \in Somes : ConstructSome(o, x)
  \/ \E r \in Refs, e \in Exts : RefBind(r, e)
  \/ \E a \in Operands, b \in Operands : Equal(a, b)
  \/ \E a \in Operands, b \in Operands : ThreeWay(a, b)

SpecCompare == Init /\ [][NextCompare]_vars

-----------------------------------------------------------------------------
(* Triviality of the special members of Optional<T>.                       *)
(* A payload type is described by how it declares each of its five special *)
(* members, as the structs of test.cpp lines 24-62 do.                     *)

MemberKinds == {"defaulted", "user-provided", "deleted"}

PayloadTypes ==
  [copy_ctor : MemberKinds, move_ctor : MemberKinds, copy_assign : MemberKinds,
   move_assign : MemberKinds, dtor : MemberKinds]

\* std::is_trivially_destructible_v<C>, for a class C without members of
\* class type that declares its destructor as C.dtor says.
is_trivially_destructible_v(C) == C.dtor = "defaulted"

\* std::is_trivially_copy_constructible_v<C>: the expression C(c) calls no
\* operation that is not trivial; the expression includes the destruction of
\* the object it makes.
is_trivially_copy_constructible_v(C) ==
  C.copy_ctor = "defaulted" /\ is_trivially_destructible_v(C)

\* std::is_trivially_move_constructible_v<C>.
is_trivially_move_constructible_v(C) ==
  C.move_ctor = "defaulted" /\ is_trivially_destructible_v(C)

\* std::is_trivially_copy_assignable_v<C>.
is_trivially_copy_assignable_v(C) == C.copy_assign = "defaulted"

\* std::is_trivially_move_assignable_v<C>.
is_trivially_move_assignable_v(C) == C.move_assign = "defaulted"

trivially_copy_assignable_never(T) == FALSE

\* optional_detail::trivially_copy_assignable<T> (lines 277-280).
trivially_copy_assignable(T) ==
  /\ is_trivially_copy_assignable_v(T)
  /\ is_trivially_copy_constructible_v(T)
  /\ is_trivially_destructible_v(T)

\* optional_detail::trivially_move_assignable<T> (lines 282-285).
trivially_move_assignable(T) ==
  /\ is_trivially_move_constructible_v(T)
  /\ is_trivially_move_assignable_v(T)
  /\ is_trivially_destructible_v(T)

\* The special members of Optional<T>.  Each is declared twice: defaulted under
\* a requires-clause (lines 327, 339, 372, 393, 414) and user-provided without
\* one (lines 331, 343, 376, 397, 418); the constrained declaration is the
\* one chosen whenever its constraint holds.
Optional_T(T) ==
  [copy_ctor   |-> IF is_trivially_copy_constructible_v(T)
                   THEN "defaulted" ELSE "user-provided",
   move_ctor   |-> IF is_trivially_move_constructible_v(T)
                   THEN "defaulted" ELSE "user-provided",
   dtor        |-> IF is_trivially_destructible_v(T)
                   THEN "defaulted" ELSE "user-provided",
   copy_assign |-> IF trivially_copy_assignable(T)
                   THEN "defaulted" ELSE "user-provided",
   move_assign |-> IF trivially_move_assignable(T)
                   THEN "defaulted" ELSE "user-provided"]

\* Optional<T> is instantiated for the payload type T.
Instantiate(T) ==
  /\ Running
  /\ last' = Last("Optional<T>", T, "-", FALSE, FALSE, Raw, Optional_T(T))
  /\ UNCHANGED <<pc, ndebug, alive, m_engaged, m_payload, ext, m_ptr,
                 constructed, destroyed, calls, hist>>

NextTraits == \E T \in PayloadTypes : Instantiate(T)

SpecTraits == Init /\ [][NextTraits]_vars

-----------------------------------------------------------------------------
(* The operations that construct a payload, for a T whose constructors     *)
(* throw.  The statement stands in a try block, so the program goes on     *)
(* after the exception; ret records that the operation exited by it.       *)

Thrown == <<"throw">>

\* try { Optional<T> o(other); } catch (...) {}  The constructor exits by the
\* exception of construct_at (line 334): o never comes to life.
ConstructCopyThrows(o, other) ==
  /\ Running /\ ~alive[o] /\ alive[other]
  /\ LET m == Optional_copy(Throwing, o, other)
     IN /\ m.thrown
        /\ Commit(m, Last("Optional(const Optional&)", o, other,
                          FALSE, m_engaged[other], Raw, Thrown))
  /\ UNCHANGED <<pc, ndebug, alive, m_ptr, hist>>

\* try { Optional<T> o(std::move(other)); } catch (...) {}  (line 346)
ConstructMoveThrows(o, other) ==
  /\ Running /\ ~alive[o] /\ alive[other]
  /\ LET m == Optional_move(Throwing, o, other)
     IN /\ m.thrown
        /\ Commit(m, Last("Optional(Optional&&)", o, other,
                          FALSE, m_engaged[other], Raw, Thrown))
  /\ UNCHANGED <<pc, ndebug, alive, m_ptr, hist>>

\* try { Optional<T> o = Some(...); } catch (...) {}  (lines 360, 367)
ConstructSomeThrows(o, x) ==
  /\ Running /\ ~alive[o]
  /\ LET m == Optional_Some(Throwing, o, x)
     IN /\ m.thrown
        /\ Commit(m, Last("Optional(Some)", o, x, FALSE, FALSE,
                          At(Mem, SomePlace(x)), Thrown))
  /\ UNCHANGED <<pc, ndebug, alive, m_ptr, hist>>

\* try { o = other; } catch (...) {}  (line 408)
AssignCopyThrows(o, other) ==
  /\ Running /\ alive[o] /\ alive[other]
  /\ LET m == assign_copy(Throwing, o, other)
     IN /\ m.thrown
        /\ Commit(m, Last("operator=(const Optional&)", o, other,
                          m_engaged[o], m_engaged[other], Raw, Thrown))
  /\ UNCHANGED <<pc, ndebug, alive, m_ptr, hist>>

\* try { o = std::move(other); } catch (...) {}  (line 429)
AssignMoveThrows(o, other) ==
  /\ Running /\ alive[o] /\ alive[other]
  /\ LET m == assign_move(Throwing, o, other)
     IN /\ m.thrown
        /\ Commit(m, Last("operator=(Optional&&)", o, other,
                          m_engaged[o], m_engaged[other], Raw, Thrown))
  /\ UNCHANGED <<pc, ndebug, alive, m_ptr, hist>>

\* try { o = Some(...); } catch (...) {}  (lines 441, 453)
AssignSomeThrows(o, x) ==
  /\ Running /\ alive[o]
  /\ LET m == assign_Some(Throwing, o, x)
     IN /\ m.thrown
        /\ Commit(m, Last("operator=(Some)", o, x, m_engaged[o], FALSE,
                          At(Mem, SomePlace(x)), Thrown))
  /\ UNCHANGED <<pc, ndebug, alive, m_ptr, hist>>

\* try { o.swap(other); } catch (...) {}  (lines 655, 662, and the temporary
\* of std::swap)
SwapThrows(o, other) ==
  /\ Running /\ alive[o] /\ alive[other]
  /\ LET m == swap(Throwing, o, other)
     IN /\ m.thrown
        /\ Commit(m, Last("swap", o, other, m_engaged[o], m_engaged[other],
                          <<m_payload[o], m_payload[other]>>, Thrown))
  /\ UNCHANGED <<pc, ndebug, alive, m_ptr, hist>>

\* try { o.emplace(x); } catch (...) {}  (line 685); reset() has run.
EmplaceThrows(o, x) ==
  /\ Running /\ alive[o]
  /\ LET m == emplace(Throwing, o, x)
     IN /\ m.thrown
        /\ Commit(m, Last("emplace", o, <<"lit", x>>, m_engaged[o], FALSE, Raw,
                          Thrown))
  /\ hist' = SetBy(hist, o, "reset")
  /\ UNCHANGED <<pc, ndebug, alive, m_ptr>>

NextThrow ==
  \/ \E o \in Opts : ConstructNone(o)
  \/ \E o \in Opts, x \in Somes : ConstructSome(o, x)
  \/ \E o \in Opts : Destroy(o)
  \/ \E o \in Opts : \E other \in Opts \ {o} : ConstructCopyThrows(o, other)
  \/ \E o \in Opts : \E other \in Opts \ {o} : ConstructMoveThrows(o, other)
  \/ \E o \in Opts, x \in Somes : ConstructSomeThrows(o, x)
  \/ \E o \in Opts, other \in Opts : AssignCopyThrows(o, other)
  \/ \E o \in Opts, other \in Opts : AssignMoveThrows(o, other)
  \/ \E o \in Opts, x \in Somes : AssignSomeThrows(o, x)
  \/ \E o \in Opts, other \in Opts : SwapThrows(o, other)
  \/ \E o \in Opts, x \in Values : EmplaceThrows(o, x)

SpecThrow == Init /\ [][NextThrow]_vars

-----------------------------------------------------------------------------
(* Properties.                                                             *)

AliveOpts == {o \in Opts : alive[o]}

\* The Ints alive: the payloads in their slots and the Ints of Exts.
LiveInts ==
  Cardinality({o \in Opts : m_payload[o].live})
    + Cardinality({e \in Exts : ext[e].live})

MoveOps == {"Optional(Optional&&)", "operator=(Optional&&)"}

\* The one call of a special member of Int that the last operation made on
\* the payload of last.self with argument arg, and no other call.
OnlyCall(fn, arg) == calls = <<Call(fn, Payload(last.self), arg)>>

\* C1: after any sequence of operations, the storage slot of every optional
\* within its lifetime holds a live T if and only if has_value() is true (and
\* the slot of an optional outside its lifetime holds nothing).
C1_SlotLiveIffEngaged ==
  \A o \in Opts :
    /\ alive[o] => (m_payload[o].live <=> has_value(o))
    /\ ~alive[o] => ~m_payload[o].live

\* C1 witness: after a swap of an engaged with a disengaged optional, one
\* optional holds a live payload and the other holds none.
C1_Witness ==
  /\ last.op = "swap"
  /\ \E o \in AliveOpts : has_value(o) /\ m_payload[o].live
  /\ \E o \in AliveOpts : ~has_value(o) /\ ~m_payload[o].live

\* C2: at every point the number of Ints constructed exceeds the number
\* destroyed by exactly the number of Ints alive (nothing leaked, nothing
\* destroyed twice); so once every optional has been destroyed only the
\* block's own Ints are outstanding, and at the end of the block the two
\* counters are equal.
C2_ConstructedEqualsDestroyed ==
  /\ constructed - destroyed = LiveInts
  /\ AliveOpts = {} => constructed - destroyed
                         = Cardinality({e \in Exts : ext[e].live})
  /\ pc = "done" => constructed = destroyed

\* C2 witness: the block has ended after payloads were constructed in its
\* optionals, and the counters agree.
C2_Witness ==
  /\ pc = "done"
  /\ constructed = MaxConstructed
  /\ constructed = destroyed

\* C3 as stated: an optional is engaged exactly when the operation that last
\* set it was of an engaging kind and it has not been the source of a move
\* since.
C3_Original ==
  \A o \in AliveOpts :
    m_engaged[o] <=> (hist[o].engaging /\ ~hist[o].moved_away)

\* C3, amended: an optional is engaged exactly when the operation that last
\* set it was a value construction, a copy or a move from an engaged
\* optional, an emplace, an assignment from Some or a swap with an engaged
\* optional; being the source of a move since then does not disengage it.
C3_EngagedIffLastSetEngaging ==
  \A o \in AliveOpts : m_engaged[o] <=> hist[o].engaging

\* C3 witness: an optional that was set by an engaging operation, was then
\* the source of a move, and is engaged.
C3_Witness ==
  \E o \in AliveOpts :
    hist[o].engaging /\ hist[o].moved_away /\ m_engaged[o]

\* C4: copy and move assignment a = b split four ways on (a engaged, b
\* engaged): both: T's assignment operator is applied to a's payload and no T
\* is constructed or destroyed; a only: a's payload is destroyed and a is
\* disengaged; b only: a payload is constructed in a from b's and a is
\* engaged; neither: no call is made and a stays disengaged.
C4_AssignmentFourWay ==
  last.op \in {"operator=(const Optional&)", "operator=(Optional&&)"} =>
    LET copy == last.op = "operator=(const Optional&)"
        a == last.self
        b == Payload(last.other)
    IN /\ (last.selfWas /\ last.otherWas) =>
            /\ OnlyCall(IF copy THEN "operator=(const Int&)"
                        ELSE "operator=(Int&&)", b)
            /\ m_engaged[a] /\ m_payload[a].live
            /\ m_payload[a].value = At(Mem, b).value
       /\ (last.selfWas /\ ~last.otherWas) =>
            /\ OnlyCall("~Int()", NoArg)
            /\ ~m_engaged[a] /\ ~m_payload[a].live
       /\ ((~last.selfWas) /\ last.otherWas) =>
            /\ OnlyCall(IF copy THEN "Int(const Int&)" ELSE "Int(Int&&)", b)
            /\ m_engaged[a] /\ m_payload[a].live
            /\ m_payload[a].value = At(Mem, b).value
       /\ ((~last.selfWas) /\ ~last.otherWas) =>
            /\ calls = <<>>
            /\ ~m_engaged[a] /\ ~m_payload[a].live
            /\ ~m_engaged[last.other]

\* C4 witness: a move assignment between two distinct engaged optionals that
\* made exactly one call, T's move assignment.
C4_Witness ==
  /\ last.op = "operator=(Optional&&)"
  /\ last.self # last.other
  /\ last.selfWas /\ last.otherWas
  /\ OnlyCall("operator=(Int&&)", Payload(last.other))

\* C5: after move construction or move assignment from an engaged optional
\* the source still has a value: its payload is alive, in the moved-from
\* state, and the operation did not destroy it.
C5_MoveSourceStaysEngaged ==
  (last.op \in MoveOps /\ last.otherWas) =>
    /\ has_value(last.other)
    /\ m_payload[last.other].live
    /\ m_payload[last.other].moved_from
    /\ \A i \in 1..Len(calls) :
         ~(calls[i].fn = "~Int()" /\ calls[i].obj = Payload(last.other))

\* C5 witness: a move construction from an engaged optional, after which the
\* source is engaged and moved-from.
C5_Witness ==
  /\ last.op = "Optional(Optional&&)"
  /\ last.otherWas
  /\ has_value(last.other)
  /\ m_payload[last.other].moved_from

\* C6: value() on a disengaged Optional<T> or Optional<T&> ends the process
\* (in every build) and returns nothing.
C6_ValueOnDisengagedAborts ==
  (last.op \in {"value", "ref value"} /\ ~last.selfWas) =>
    (pc = "aborted" /\ last.ret = NoRet)

\* C7: operator* and operator-> on a disengaged optional end the process
\* when NDEBUG is not defined and check nothing when it is; on an engaged
\* optional they return the payload or referent in both builds.
C7_DerefChecksInDebugOnly ==
  LET value_case == last.op \in {"operator*", "operator->"}
      ref_case == last.op \in {"ref operator*", "ref operator->"}
  IN (value_case \/ ref_case) =>
       /\ ((~last.selfWas) /\ ~ndebug) => (pc = "aborted" /\ last.ret = NoRet)
       /\ ((~last.selfWas) /\ ndebug) => pc # "aborted"
       /\ (last.selfWas /\ value_case) =>
            (pc = "running" /\ last.ret = <<"ref", Payload(last.self)>>)
       /\ (last.selfWas /\ ref_case) =>
            (pc = "running" /\ last.ret[2] = <<"ext", m_ptr[last.self]>>)

\* C8: an optional constructed from Some(x), or in place from x, is engaged
\* and value() returns its payload, which equals x; from an lvalue x the
\* payload is copy-constructed and x is as it was (its value unchanged, not
\* moved from; T's copy constructor alone has seen it), from an rvalue x it
\* is move-constructed, from an int it is constructed from that value.
C8_RoundTrip ==
  /\ last.op = "Optional(in_place)" =>
       /\ has_value(last.self)
       /\ value(last.self) = [abort |-> FALSE, ret |-> <<"ref", Payload(last.self)>>]
       /\ m_payload[last.self].live
       /\ m_payload[last.self].value = last.other[2]
       /\ OnlyCall("Int(int)", last.other)
  /\ last.op = "Optional(Some)" =>
       LET x == last.other
       IN /\ has_value(last.self)
          /\ value(last.self) = [abort |-> FALSE, ret |-> <<"ref", Payload(last.self)>>]
          /\ m_payload[last.self].live
          /\ m_payload[last.self].value = last.argWas.value
          /\ x[1] = "lit" => OnlyCall("Int(int)", x)
          /\ x[1] = "lvalue" =>
               /\ OnlyCall("Int(const Int&)", SomePlace(x))
               /\ ext[x[2]] = CopiedFrom(last.argWas)
          /\ x[1] = "rvalue" => OnlyCall("Int(Int&&)", SomePlace(x))

\* C9: copy and move construction give the new optional the engagement of
\* the source: from an engaged source exactly one T is constructed, from the
\* source's payload; from a disengaged source no T is constructed and the
\* new optional is disengaged.
C9_CopyMoveConstruction ==
  last.op \in {"Optional(const Optional&)", "Optional(Optional&&)"} =>
    LET src == Payload(last.other)
    IN /\ has_value(last.self) <=> last.otherWas
       /\ last.otherWas =>
            /\ OnlyCall(IF last.op = "Optional(const Optional&)"
                        THEN "Int(const Int&)" ELSE "Int(Int&&)", src)
            /\ m_payload[last.self].live
            /\ m_payload[last.self].value = At(Mem, src).value
       /\ ~last.otherWas =>
            /\ calls = <<>>
            /\ m_payload[last.self] = Raw

\* C9 witness: a copy construction from a disengaged optional that made no
\* call and gave a disengaged optional.
C9_Witness ==
  /\ last.op = "Optional(const Optional&)"
  /\ ~last.otherWas
  /\ alive[last.self] /\ ~has_value(last.self)
  /\ calls = <<>>

\* C10: after o = Some(v) the optional is engaged with a payload equal to v;
\* if it was engaged, T's assignment operator was applied to the payload and
\* no T was constructed or destroyed; if it was disengaged, the payload was
\* constructed in place from v.
C10_AssignSome ==
  last.op = "operator=(Some)" =>
    LET x == last.other
    IN /\ has_value(last.self)
       /\ m_payload[last.self].live
       /\ m_payload[last.self].value = last.argWas.value
       /\ last.selfWas =>
            OnlyCall(CASE x[1] = "lit" -> "operator=(int)"
                       [] x[1] = "lvalue" -> "operator=(const Int&)"
                       [] OTHER -> "operator=(Int&&)", SomePlace(x))
       /\ ~last.selfWas =>
            OnlyCall(CASE x[1] = "lit" -> "Int(int)"
                       [] x[1] = "lvalue" -> "Int(const Int&)"
                       [] OTHER -> "Int(Int&&)", SomePlace(x))

\* C10 witness: Some(2) assigned to an engaged optional, by T's assignment
\* from int alone.
C10_Witness ==
  /\ last.op = "operator=(Some)"
  /\ last.selfWas
  /\ last.other = <<"lit", 2>>
  /\ calls = <<Call("operator=(int)", Payload(last.self), <<"lit", 2>>)>>
  /\ m_payload[last.self].value = 2
\* What an operation leaves behind, apart from the record of its calls.
Effect(m) == [m EXCEPT !.calls = <<>>]

\* C11: reset() and assignment from None leave the optional disengaged
\* whatever it was, destroy the payload exactly once if it was engaged and
\* call nothing otherwise; either of them applied to what the other or itself
\* left behind changes nothing and destroys nothing.
C11_ResetIdempotent ==
  /\ last.op \in {"reset", "operator=(None)"} =>
       /\ ~has_value(last.self)
       /\ ~m_payload[last.self].live
       /\ calls = IF last.selfWas
                  THEN <<Call("~Int()", Payload(last.self), NoArg)>>
                  ELSE <<>>
       /\ reset(Mem, last.self) = Mem
       /\ assign_None(Mem, last.self) = Mem
  /\ \A o \in AliveOpts :
       /\ reset(Effect(reset(Mem, o)), o) = Effect(reset(Mem, o))
       /\ assign_None(Effect(assign_None(Mem, o)), o) = Effect(assign_None(Mem, o))
       /\ Effect(assign_None(Mem, o)) = Effect(reset(Mem, o))

\* C11 witness: a = None has just destroyed the payload of an engaged
\* optional, and a second a = None, or a reset(), would change nothing.
C11_Witness ==
  /\ last.op = "operator=(None)"
  /\ last.selfWas
  /\ pc = "running"
  /\ destroyed > 0
  /\ assign_None(Mem, last.self) = Mem
  /\ reset(Mem, last.self) = Mem

AssignOps == {"operator=(None)", "operator=(const Optional&)",
              "operator=(Optional&&)", "operator=(Some)",
              "ref operator=(SomeRef)", "ref operator=(None)"}

\* C12: every assignment operator of Optional<T> and Optional<T&> returns a
\* reference to the optional assigned to (and the program goes on).
C12_AssignmentReturnsSelf ==
  last.op \in AssignOps =>
    /\ last.ret = <<"ref", <<"optional", last.self>>>>
    /\ pc = "running"

\* C13: emplace destroys the payload if the optional is engaged and then
\* constructs the new payload in place from its argument, never assigning;
\* afterwards the optional is engaged with that payload, and the reference
\* returned is to it.
C13_Emplace ==
  last.op = "emplace" =>
    LET p == Payload(last.self)
        built == Call("Int(int)", p, last.other)
    IN /\ calls = IF last.selfWas
                  THEN <<Call("~Int()", p, NoArg), built>>
                  ELSE <<built>>
       /\ has_value(last.self)
       /\ m_payload[last.self] = IntFromValue(last.other[2])
       /\ last.ret = <<"ref", p>>

\* C13 witness: emplace(2) on an engaged optional destroyed the old payload
\* and constructed the new one.
C13_Witness ==
  /\ last.op = "emplace"
  /\ last.selfWas
  /\ last.other = <<"lit", 2>>
  /\ Len(calls) = 2
  /\ calls[1].fn = "~Int()"
  /\ calls[2].fn = "Int(int)"
  /\ m_payload[last.self].value = 2

\* C14: swap exchanges the engagement and the payload values of the two
\* optionals in all four combinations; with exactly one engaged, the payload
\* is relocated by exactly one T move construction into the disengaged side
\* and exactly one T destruction of the engaged side; with neither engaged
\* no call is made.
C14_Swap ==
  last.op = "swap" =>
    LET a == last.self
        b == last.other
    IN /\ m_engaged[a] = last.otherWas
       /\ m_engaged[b] = last.selfWas
       /\ m_payload[a].live = last.otherWas
       /\ m_payload[b].live = last.selfWas
       /\ last.otherWas => m_payload[a].value = last.argWas[2].value
       /\ last.selfWas => m_payload[b].value = last.argWas[1].value
       /\ (last.selfWas /\ ~last.otherWas) =>
            calls = <<Call("Int(Int&&)", Payload(b), Payload(a)),
                      Call("~Int()", Payload(a), NoArg)>>
       /\ ((~last.selfWas) /\ last.otherWas) =>
            calls = <<Call("Int(Int&&)", Payload(a), Payload(b)),
                      Call("~Int()", Payload(b), NoArg)>>
       /\ ((~last.selfWas) /\ ~last.otherWas) => calls = <<>>

\* C14 witness: a swap of an engaged optional with a disengaged one, after
\* which the engaged one is disengaged and the other holds its value, by one
\* construction and one destruction.
C14_Witness ==
  /\ last.op = "swap"
  /\ last.selfWas /\ ~last.otherWas
  /\ ~m_engaged[last.self] /\ m_engaged[last.other]
  /\ m_payload[last.other].value = last.argWas[1].value
  /\ Len(calls) = 2
\* C15: and_then(f) on Optional<T> and on Optional<T&>: on an engaged
\* optional f is invoked exactly once with the payload (or referent) and its
\* result is returned; on a disengaged one f is never invoked and the result
\* is a disengaged optional of f's return type; the optional is unchanged.
C15_AndThen ==
  last.op \in {"and_then", "ref and_then"} =>
    /\ pc = "running"
    /\ LET p == IF last.op = "and_then" THEN Payload(last.self)
                ELSE <<"ext", m_ptr[last.self]>>
       IN /\ last.selfWas =>
               /\ last.ret.invoked = 1
               /\ last.ret.result = invoke(last.other, Mem, p)
               /\ At(Mem, p) = last.argWas
          /\ ~last.selfWas =>
               /\ last.ret.invoked = 0
               /\ last.ret.result = Disengaged(bare_result_type(last.other))
    /\ calls = <<>>
    /\ last.op = "and_then" => m_engaged[last.self] = last.selfWas
    /\ last.op = "ref and_then" => (m_ptr[last.self] # "null") = last.selfWas
TransformOps == {"transform", "ref transform"}

\* The object transform passed to the callback in the last operation.
Passed ==
  IF last.op = "transform" THEN Payload(last.self)
  ELSE <<"ext", m_ptr[last.self]>>

\* C16: transform(f) on Optional<T> and on Optional<T&>: on an engaged
\* optional f is invoked exactly once with the payload (or referent) and the
\* result is an engaged optional holding what f returned; on a disengaged one
\* f is never invoked and the result is disengaged.
C16_Transform ==
  last.op \in TransformOps =>
    /\ pc = "running"
    /\ LET res == last.ret.result
           d == res[2]
       IN /\ last.selfWas =>
               /\ last.ret.invoked = 1
               /\ last.other = "plus_one" =>
                    /\ m_engaged[d] /\ m_payload[d].live
                    /\ m_payload[d].value = last.argWas.value + 1
               /\ last.other = "move" =>
                    /\ m_engaged[d] /\ m_payload[d].live
                    /\ m_payload[d].value = last.argWas.value
               /\ last.other = "identity" => res = OptRef(Passed)
          /\ ~last.selfWas =>
               /\ last.ret.invoked = 0
               /\ calls = <<>>
               /\ last.other = "identity" => res = Disengaged("Optional<Int&>")
               /\ last.other # "identity" =>
                    alive[d] /\ ~m_engaged[d] /\ ~m_payload[d].live

\* C17: when the callback given to transform returns a plain value, the
\* payload of the new optional is the object the call produced: the only
\* member of the result type that runs is the constructor the callback used,
\* on the payload itself; no copy or move constructor runs afterwards.
C17_TransformMaterializes ==
  (last.op \in TransformOps /\ last.other = "plus_one" /\ last.selfWas) =>
    LET d == last.ret.result[2]
    IN /\ calls = <<Call("Int(int)", Payload(d),
                         <<"lit", last.argWas.value + 1>>)>>
       /\ m_payload[d] = IntFromValue(last.argWas.value + 1)
       /\ m_engaged[d]
       /\ At(Mem, Passed) = last.argWas

\* C17 witness: auto d = o.transform(plus_one) on an engaged Optional<Int>,
\* whose payload was constructed from the int by one call and has been
\* neither copied nor moved.
C17_Witness ==
  /\ last.op = "transform"
  /\ last.other = "plus_one"
  /\ last.selfWas
  /\ Len(calls) = 1
  /\ calls[1].fn = "Int(int)"
  /\ m_payload[last.ret.result[2]].value = m_payload[last.self].value + 1

\* C18: when the callback given to transform returns an lvalue reference, the
\* result is a reference-case optional bound to the very object the callback
\* returned, and no T is constructed; transform with the identity on an
\* engaged Optional<T> gives an optional whose referent is the payload.
C18_TransformReference ==
  (last.op \in TransformOps /\ last.other = "identity") =>
    /\ pc = "running"
    /\ last.selfWas => last.ret.result = OptRef(Passed)
    /\ ~last.selfWas => last.ret.result = Disengaged("Optional<Int&>")
    /\ calls = <<>>
OrElseOps == {"or_else", "or_else &&", "ref or_else"}

\* C19: or_else(f): an engaged optional gives an engaged copy of itself (a
\* move of itself when it is an rvalue) and f is never invoked; a disengaged
\* one invokes the zero-argument f exactly once and gives what it returned;
\* on Optional<T> and on Optional<T&> alike.
C19_OrElse ==
  last.op \in OrElseOps =>
    /\ pc = "running"
    /\ LET res == last.ret.result
           d == res[2]
       IN /\ (last.selfWas /\ last.op = "or_else") =>
               /\ last.ret.invoked = 0
               /\ m_engaged[d] /\ m_payload[d] = IntFromInt(last.argWas)
               /\ calls = <<Call("Int(const Int&)", Payload(d), Payload(last.self))>>
          /\ (last.selfWas /\ last.op = "or_else &&") =>
               /\ last.ret.invoked = 0
               /\ m_engaged[d] /\ m_payload[d] = IntFromInt(last.argWas)
               /\ calls = <<Call("Int(Int&&)", Payload(d), Payload(last.self))>>
          /\ (last.selfWas /\ last.op = "ref or_else") =>
               /\ last.ret.invoked = 0
               /\ res = OptRef(<<"ext", m_ptr[last.self]>>)
          /\ (~last.selfWas /\ last.op # "ref or_else") =>
               /\ last.ret.invoked = 1
               /\ last.other[1] = "lit" =>
                    m_engaged[d] /\ m_payload[d] = IntFromValue(last.other[2])
               /\ last.other[1] = "none" => ~m_engaged[d] /\ ~m_payload[d].live
          /\ (~last.selfWas /\ last.op = "ref or_else") =>
               /\ last.ret.invoked = 1
               /\ res = Disengaged("Optional<Int&>")

ValueOrOps == {"value_or", "value_or &&"}

\* C20: value_or(d) on Optional<T> returns the payload's value when engaged
\* and d converted to T when disengaged, and leaves the engagement as it was;
\* on Optional<T&> it returns the referent itself when bound and d itself
\* when not, and copies nothing.
C20_ValueOr ==
  /\ last.op \in ValueOrOps =>
       /\ m_engaged[last.self] = last.selfWas
       /\ last.ret.live
       /\ last.selfWas =>
            /\ last.ret.value = last.argWas[1].value
            /\ m_payload[last.self].live
            /\ m_payload[last.self].value = last.argWas[1].value
            /\ ext = [e \in Exts |-> IF last.other[1] = "lit" THEN ext[e]
                                     ELSE last.argWas[2]]
       /\ ~last.selfWas =>
            /\ last.ret.value = last.argWas[2].value
            /\ ~m_payload[last.self].live
  /\ last.op = "ref value_or" =>
       /\ calls = <<>>
       /\ last.selfWas => last.ret = <<"ext", m_ptr[last.self]>>
       /\ ~last.selfWas => last.ret = last.other

\* C20 witness: value_or on an engaged Optional<Int>, given a default of
\* another value, has returned the payload's value.
C20_Witness ==
  /\ last.op = "value_or"
  /\ last.selfWas
  /\ last.argWas[1].value # last.argWas[2].value
  /\ last.ret.value = m_payload[last.self].value
RefBindOps == {"ref Optional(SomeRef)", "ref operator=(SomeRef)"}
RefAccessOps == {"ref value", "ref operator*", "ref operator->"}

\* C21: an Optional<T&> constructed or assigned from SomeRef(obj) is engaged
\* and refers to obj itself; value(), operator* and operator-> of a bound
\* optional yield the object it is bound to, and a write through the optional
\* is a write to that object.
C21_RefersToObject ==
  /\ last.op \in RefBindOps =>
       /\ m_ptr[last.self] = last.other
       /\ m_ptr[last.self] # "null"
       /\ ext = last.argWas.ext
  /\ (last.op \in RefAccessOps /\ last.selfWas) =>
       /\ pc = "running"
       /\ last.ret[2] = <<"ext", m_ptr[last.self]>>
  /\ (last.op = "ref write" /\ last.selfWas) =>
       /\ pc = "running"
       /\ ext[m_ptr[last.self]].value = last.other

\* C21 witness: a write through an optional bound to z has changed z's value.
C21_Witness ==
  /\ last.op = "ref write"
  /\ m_ptr[last.self] = "z"
  /\ ext["z"].value = last.other
  /\ last.argWas.ext["z"].value # last.other
\* C22: assigning SomeRef(y) to an Optional<T&> bound to x rebinds it to y:
\* afterwards it refers to y and x has the value it had (no Int is assigned
\* to); a later write through the optional changes the Int it is then bound
\* to and no other.
C22_AssignRebinds ==
  /\ (last.op = "ref operator=(SomeRef)" /\ last.selfWas) =>
       /\ m_ptr[last.self] = last.other
       /\ ext = last.argWas.ext
       /\ calls = <<>>
       /\ \A q \in DOMAIN m_ptr \ {last.self} : m_ptr[q] = last.argWas.ptr[q]
  /\ (last.op = "ref write" /\ last.selfWas) =>
       /\ ext[m_ptr[last.self]].value = last.other
       /\ \A e \in DOMAIN ext \ {m_ptr[last.self]} : ext[e] = last.argWas.ext[e]

\* C22 witness: an optional bound to y, whose value differs from z's, has been
\* assigned SomeRef(z).
C22_Witness ==
  /\ last.op = "ref operator=(SomeRef)"
  /\ last.argWas.ptr[last.self] = "y"
  /\ last.other = "z"
  /\ m_ptr[last.self] = "z"
  /\ ext["y"].value # ext["z"].value

RefRebindOps == {"ref reset", "ref operator=(None)",
                 "ref operator=(const Optional&)", "ref operator=(Optional&&)",
                 "ref swap"}

\* C23: on Optional<T&>, reset, assignment from None, copy and move
\* assignment and swap change only stored addresses: reset and None clear the
\* optional's, assignment copies the source's, swap exchanges the two; every
\* Int keeps its value, and none is constructed or destroyed.
C23_OnlyTheAddress ==
  last.op \in RefRebindOps =>
    /\ ext = last.argWas.ext
    /\ calls = <<>>
    /\ constructed = Cardinality({e \in DOMAIN ext : ext[e].live})
    /\ destroyed = 0
    /\ last.op \in {"ref reset", "ref operator=(None)"} =>
         m_ptr = [last.argWas.ptr EXCEPT ![last.self] = "null"]
    /\ last.op \in {"ref operator=(const Optional&)", "ref operator=(Optional&&)"} =>
         m_ptr = [last.argWas.ptr EXCEPT ![last.self] = last.argWas.ptr[last.other]]
    /\ last.op = "ref swap" =>
         m_ptr = [last.argWas.ptr EXCEPT
                    ![last.self] = last.argWas.ptr[last.other],
                    ![last.other] = last.argWas.ptr[last.self]]

\* C23 witness: two optionals bound to y and to z, of different values, have
\* been swapped.
C23_Witness ==
  /\ last.op = "ref swap"
  /\ last.argWas.ptr[last.self] = "y"
  /\ last.argWas.ptr[last.other] = "z"
  /\ m_ptr[last.self] = "z"
  /\ m_ptr[last.other] = "y"
  /\ ext["y"].value # ext["z"].value
CompareOps == {"==", "<=>"}

\* Whether the last comparison was of two optionals; when it was not, Opt is
\* its optional operand, Bare the other one, and Flipped tells that the
\* optional stood on the right.
BothOptional == IsOptional(last.self) /\ IsOptional(last.other)
Flipped == ~IsOptional(last.self)
Opt == IF Flipped THEN last.other ELSE last.self
Bare == IF Flipped THEN last.self ELSE last.other
\* The ordering of the ints x and y.
Order(x, y) == IF x < y THEN "less" ELSE IF x > y THEN "greater" ELSE "equivalent"
\* An ordering seen from the other side.
Mirror(c) == IF c = "less" THEN "greater" ELSE IF c = "greater" THEN "less" ELSE c

\* C24: two optionals are equal iff both are disengaged or both are engaged
\* with equal payloads; a disengaged optional orders before every engaged
\* one, two disengaged ones are equivalent, and two engaged ones order as
\* their payloads do.
C24_CompareOptionals ==
  (last.op \in CompareOps /\ BothOptional) =>
    LET a == last.self
        b == last.other
    IN /\ last.op = "==" =>
            last.ret = \/ ~Holds(a) /\ ~Holds(b)
                       \/ Holds(a) /\ Holds(b) /\ Held(a).value = Held(b).value
       /\ last.op = "<=>" =>
            /\ (~Holds(a) /\ Holds(b)) => last.ret = "less"
            /\ (Holds(a) /\ ~Holds(b)) => last.ret = "greater"
            /\ (~Holds(a) /\ ~Holds(b)) => last.ret = "equivalent"
            /\ (Holds(a) /\ Holds(b)) =>
                 last.ret = Order(Held(a).value, Held(b).value)
       /\ calls = <<>>

\* C24 witness: a disengaged optional has been ordered against an engaged one,
\* and came before it.
C24_Witness ==
  /\ last.op = "<=>"
  /\ BothOptional
  /\ ~Holds(last.self)
  /\ Holds(last.other)
  /\ last.ret = "less"

\* C25: an optional and None are equal iff the optional is disengaged; a
\* disengaged optional is equivalent to None and an engaged one is greater
\* than None, whichever side None stands on.
C25_CompareNone ==
  (last.op \in CompareOps /\ ~BothOptional /\ Bare = <<"None">>) =>
    /\ last.op = "==" => last.ret = ~Holds(Opt)
    /\ (last.op = "<=>" /\ ~Holds(Opt)) => last.ret = "equivalent"
    /\ (last.op = "<=>" /\ Holds(Opt) /\ ~Flipped) => last.ret = "greater"
    /\ (last.op = "<=>" /\ Holds(Opt) /\ Flipped) => last.ret = "less"
    /\ calls = <<>>

\* C25 witness: None <=> x for an engaged x has given less (x is greater than
\* None).
C25_Witness ==
  /\ last.op = "<=>"
  /\ last.self = <<"None">>
  /\ Holds(last.other)
  /\ last.ret = "less"

\* C26: an optional and a bare value v are equal iff the optional is engaged
\* and its payload equals v; a disengaged optional is less than every v; an
\* engaged optional orders against v as its payload does.
C26_CompareValue ==
  (last.op \in CompareOps /\ ~BothOptional /\ Bare # <<"None">>) =>
    LET v == At(Mem, Bare).value
        seen(c) == IF Flipped THEN Mirror(c) ELSE c
    IN /\ last.op = "==" => last.ret = (Holds(Opt) /\ Held(Opt).value = v)
       /\ (last.op = "<=>" /\ ~Holds(Opt)) => last.ret = seen("less")
       /\ (last.op = "<=>" /\ Holds(Opt)) =>
            last.ret = seen(Order(Held(Opt).value, v))

\* C26 witness: a disengaged optional has been ordered against an int and
\* came before it.
C26_Witness ==
  /\ last.op = "<=>"
  /\ IsOptional(last.self)
  /\ last.other[1] = "lit"
  /\ ~Holds(last.self)
  /\ last.ret = "less"

\* C27: for every pair of operands, in either order, == holds exactly when
\* <=> yields equivalent, no operand is less than itself, and a < b implies
\* not b < a.
C27_Consistent ==
  last.op = "<=>" =>
    /\ operator_eq(Mem, m_ptr, last.self, last.other).ret
         <=> (last.ret = "equivalent")
    /\ last.self = last.other => last.ret # "less"
    /\ last.ret = "less" =>
         operator_cmp(Mem, m_ptr, last.other, last.self).ret # "less"

\* C27 witness: an int on the left has been found less than an engaged
\* optional on the right.
C27_Witness ==
  /\ last.op = "<=>"
  /\ last.self[1] = "lit"
  /\ IsOptional(last.other)
  /\ Holds(last.other)
  /\ last.ret = "less"

\* C28: Optional<T>'s copy constructor, move constructor and destructor are
\* trivial when T's are; its copy (move) assignment is trivial when T's copy
\* (move) assignment, copy (move) construction and destruction are all
\* trivial; when T's copy assignment is not trivial, neither is Optional<T>'s,
\* while its move operations stay trivial if T's are.
C28_TrivialityPreserved ==
  last.op = "Optional<T>" =>
    LET T == last.self
        O == last.ret
    IN /\ is_trivially_copy_constructible_v(T)
            => is_trivially_copy_constructible_v(O)
       /\ is_trivially_move_constructible_v(T)
            => is_trivially_move_constructible_v(O)
       /\ is_trivially_destructible_v(T) => is_trivially_destructible_v(O)
       /\ ( /\ is_trivially_copy_assignable_v(T)
            /\ is_trivially_copy_constructible_v(T)
            /\ is_trivially_destructible_v(T) )
            => is_trivially_copy_assignable_v(O)
       /\ ( /\ is_trivially_move_assignable_v(T)
            /\ is_trivially_move_constructible_v(T)
            /\ is_trivially_destructible_v(T) )
            => is_trivially_move_assignable_v(O)
       /\ ~is_trivially_copy_assignable_v(T) =>
            /\ ~is_trivially_copy_assignable_v(O)
            /\ is_trivially_move_constructible_v(T)
                 => is_trivially_move_constructible_v(O)
            /\ ( /\ is_trivially_move_assignable_v(T)
                 /\ is_trivially_move_constructible_v(T)
                 /\ is_trivially_destructible_v(T) )
                 => is_trivially_move_assignable_v(O)

\* C28 witness: Optional<T> has been instantiated for a T whose copy
\* assignment alone is user-provided (TriviallyMovableButNotCopyAssignable);
\* its copy assignment is not trivial and its move assignment is.
C28_Witness ==
  /\ last.op = "Optional<T>"
  /\ last.self = [copy_ctor |-> "defaulted", move_ctor |-> "defaulted",
                  copy_assign |-> "user-provided",
                  move_assign |-> "defaulted", dtor |-> "defaulted"]
  /\ ~is_trivially_copy_assignable_v(last.ret)
  /\ is_trivially_move_assignable_v(last.ret)
  /\ is_trivially_copy_constructible_v(last.ret)

ConstructorOps ==
  {"Optional(const Optional&)", "Optional(Optional&&)", "Optional(Some)"}

\* The optional o holds no payload and says so.
Empty(o) == ~m_engaged[o] /\ ~m_payload[o].live

\* C29: the engaged flag is set only after the payload's construction has
\* completed: an engaged optional always holds a live payload, and when the
\* construction throws in a constructor, in an assignment into a disengaged
\* target, in emplace or in swap, the optional that was to become engaged is
\* disengaged with no live payload (after emplace, its previous payload has
\* been destroyed; in swap, the engaged side keeps its payload).
C29_FlagAfterConstruction ==
  /\ \A o \in Opts : m_engaged[o] => m_payload[o].live
  /\ last.ret = Thrown =>
       /\ last.op \in ConstructorOps => Empty(last.self) /\ ~alive[last.self]
       /\ (last.op \notin ConstructorOps /\ last.op # "swap") =>
            Empty(last.self)
       /\ (last.op = "emplace" /\ last.selfWas) =>
            \E i \in 1..Len(calls) :
              calls[i].fn = "~Int()" /\ calls[i].obj = Payload(last.self)
       /\ last.op = "swap" =>
            /\ m_engaged[last.self] = last.selfWas
            /\ m_engaged[last.other] = last.otherWas
            /\ ~last.selfWas => Empty(last.self)
            /\ ~last.otherWas => Empty(last.other)
            /\ last.selfWas => m_payload[last.self] = last.argWas[1]
            /\ last.otherWas => m_payload[last.other] = last.argWas[2]

\* C29 witness: emplace on an engaged optional has exited by the exception of
\* the payload's constructor; the previous payload is destroyed and the
\* optional is disengaged.
C29_Witness ==
  /\ last.op = "emplace"
  /\ last.ret = Thrown
  /\ last.selfWas
  /\ Empty(last.self)
  /\ destroyed > 0

SelfOps == {"operator=(const Optional&)", "operator=(Optional&&)", "swap"}

\* The calls that begin or end the lifetime of an Int.
LifetimeCalls == {"Int(int)", "Int(const Int&)", "Int(Int&&)", "~Int()"}

\* C30: x = x, x = std::move(x) and x.swap(x) leave x's engagement as it was:
\* an engaged x stays engaged and its payload is neither destroyed nor
\* constructed; a disengaged x stays disengaged and nothing is constructed.
C30_SelfPreservesEngagement ==
  (last.op \in SelfOps /\ last.self = last.other) =>
    LET x == last.self
    IN /\ m_engaged[x] = last.selfWas
       /\ \A i \in 1..Len(calls) :
            calls[i].obj = Payload(x) => calls[i].fn \notin LifetimeCalls
       /\ last.selfWas => m_payload[x].live
       /\ (last.selfWas /\ last.op = "swap") =>
            m_payload[x].value = last.argWas[1].value
       /\ ~last.selfWas => (calls = <<>> /\ ~m_payload[x].live)

\* C30 witness: an engaged optional has been copy-assigned to itself; it is
\* engaged and its payload was assigned to, not rebuilt.
C30_Witness ==
  /\ last.op = "operator=(const Optional&)"
  /\ last.self = last.other
  /\ last.selfWas
  /\ m_engaged[last.self]
  /\ Len(calls) = 1
  /\ calls[1].fn = "operator=(const Int&)"
====
